---------------------------- MODULE Spec2Model ----------------------------
(***************************************************************************)
(* Session storage engine of agno: the storage contract as implemented by  *)
(* PostgresStorage, SqliteStorage (transactional backends) and YamlStorage *)
(* (document backend).                                                     *)
(*                                                                         *)
(* A store instance is fixed at construction (backend, mode).  Callers run *)
(* the contract's operations; every operation is a sequence of steps, one  *)
(* step per interaction with the backing store (a statement executed in    *)
(* its own unit of work, a table-existence check, a DDL statement, a file  *)
(* operation).  A step that talks to the database may fail.                *)
(***************************************************************************)
EXTENDS Integers, Sequences, FiniteSets, TLC

\* ------------------------------------------------------------------ bounds
\* time.time() / now() take values 0..MaxClock
MaxClock == 1

\* ------------------------------------------------------------ value domain
\* Python None / SQL NULL in a string or JSON position
None == "None"
\* Python None / SQL NULL in an integer (timestamp) position
NoTime == 0 - 1
\* Python None where a session object is expected
NoSession == [none |-> TRUE]

Backends == {"postgres", "sqlite", "yaml"}
Modes == {"agent", "workflow"}

SessionIds == {"s1", "s2"}
UserIds == {"u1", "u2"}
EntityIds == {"e1", "e2"}
\* arguments a caller may pass as a user_id / entity_id filter
UserFilters == {None, "", "u1"}
EntityFilters == {None, "", "e1"}
Times == 0..MaxClock

\* Opaque blobs: one value per (field, writer tag), so that a record mixing
\* the fields of two writes, or swapping two fields, is told apart.
Tags == {1, 2}
BlobTable ==
    [memory        |-> <<"mem1", "mem2">>,
     session_data  |-> <<"sd1", "sd2">>,
     extra_data    |-> <<"xd1", "xd2">>,
     agent_data    |-> <<"ad1", "ad2">>,
     workflow_data |-> <<"wd1", "wd2">>]
Blob(field, tag) == BlobTable[field][tag]

\* (user_id, entity id, blob tag) of the sessions callers write: two sessions
\* may agree on the user only, on the entity only, or on the blobs only
Contents ==
    {[user |-> "u1", entity |-> "e1", tag |-> 1],
     [user |-> "u2", entity |-> "e1", tag |-> 2],
     [user |-> "u1", entity |-> "e2", tag |-> 2]}

VARIABLES
    backend,        \* which implementation this store instance is
    mode,           \* "agent" | "workflow", fixed at construction
    clock,          \* epoch seconds
    schemaExists,   \* postgres: the schema (namespace) exists
    tableExists,    \* postgres, sqlite: the table exists
    rows,           \* postgres, sqlite: the rows of the table (column mappings)
    files,          \* yaml: file stem -> text of <stem>.yaml
    pc,             \* per caller: position in the running operation
    frame,          \* per caller: arguments, locals and result of the operation
    inst,           \* the storage instance: engine, schema_version, table handle
    copied          \* the instance made by copy.deepcopy(storage), if any

vars == <<backend, mode, clock, schemaExists, tableExists, rows, files, pc, frame,
          inst, copied>>
storeVars == <<schemaExists, tableExists, rows, files>>
\* the callers that use the store
Callers == DOMAIN pc

Transactional == backend \in {"postgres", "sqlite"}

\* ---------------------------------------------------------- session schema
\* Session dataclass: the fields of the base class
BaseFields ==
    {"session_id", "user_id", "memory", "session_data", "extra_data",
     "created_at", "updated_at"}
\* AgentSession / WorkflowSession: the fields the specialization adds
IdCol(m) == IF m = "agent" THEN "agent_id" ELSE "workflow_id"
DataCol(m) == IF m = "agent" THEN "agent_data" ELSE "workflow_data"
SessionFields(m) == BaseFields \cup {IdCol(m), DataCol(m)}

NoneOf(k) == IF k \in {"created_at", "updated_at"} THEN NoTime ELSE None
\* dict.get(k): None for a missing key
Get(data, k) == IF k \in DOMAIN data THEN data[k] ELSE NoneOf(k)

\* WorkflowSession.from_dict
WorkflowSession_from_dict(data) ==
    IF Get(data, "session_id") = None
    THEN NoSession
    ELSE [k \in {"session_id", "workflow_id", "user_id", "memory", "workflow_data",
                 "session_data", "extra_data", "created_at", "updated_at"} |->
             Get(data, k)]
\* AgentSession.from_dict: the agent counterpart of WorkflowSession.from_dict
AgentSession_from_dict(data) ==
    IF Get(data, "session_id") = None
    THEN NoSession
    ELSE [k \in {"session_id", "agent_id", "user_id", "memory", "agent_data",
                 "session_data", "extra_data", "created_at", "updated_at"} |->
             Get(data, k)]
\* if self.mode == "agent": AgentSession.from_dict(...) else: WorkflowSession...
from_dict(m, data) ==
    IF m = "agent" THEN AgentSession_from_dict(data) ELSE WorkflowSession_from_dict(data)

\* dataclasses.asdict(session): every field of the dataclass, set or not
asdict(session) == [k \in DOMAIN session |-> session[k]]

\* The session objects a caller hands to upsert on a store of mode m at time
\* now: created_at unset, or set to a time that has been
MakeSession(m, sid, c, created) ==
    [k \in SessionFields(m) |->
        CASE k = "session_id"   -> sid
          [] k = "user_id"      -> c.user
          [] k = IdCol(m)       -> c.entity
          [] k = "created_at"   -> created
          [] k = "updated_at"   -> NoTime
          [] OTHER              -> Blob(k, c.tag)]
SessionInputs(m, now) ==
    {MakeSession(m, sid, c, created) :
        sid \in SessionIds, c \in Contents, created \in {NoTime} \cup (0..now)}

\* Python truthiness of an Optional[str]
Truthy(s) == s # None /\ s # ""


\* ------------------------------------------------- transactional: schema
\* get_table_v1: column -> what the database puts there on INSERT when the
\* statement gives no value.  created_at has an insert default (server_default
\* now() / default=lambda: int(time.time())); updated_at only has an on-update
\* marker, which an INSERT does not use.
pg_get_table_v1(m) ==
    [c \in BaseFields \cup {IdCol(m), DataCol(m)} |->
        IF c = "created_at" THEN "now" ELSE "null"]
sqlite_get_table_v1(m) ==
    [c \in {"session_id", IdCol(m), "user_id", "memory", DataCol(m),
            "session_data", "extra_data", "created_at", "updated_at"} |->
        IF c = "created_at" THEN "now" ELSE "null"]
get_table(m) ==
    IF backend = "postgres" THEN pg_get_table_v1(m) ELSE sqlite_get_table_v1(m)

\* ------------------------------------------ transactional: the instance
\* what a caller may pass as db_engine / db_url / db_file / schema_version
EngineArgs == {None, "engine"}
UrlArgs == {None, "url"}
FileArgs == {None, "file"}
SchemaVersions == {0, 1, 2}
TableNames == {"sessions", "runs"}
Schemas == {None, "ai"}
\* the objects an instance refers to, each named by the instance that built it:
\* Session = sessionmaker(bind=engine), metadata = MetaData(),
\* inspector = inspect(engine), table = Table(...)
ObjectsOf(owner) ==
    [k \in {"Session", "metadata", "inspector", "table"} |-> <<owner, k>>]
\* no instance: before construction, or the constructor raised
NoInstance ==
    [status |-> "absent", db_engine |-> None, schema_version |-> 1,
     metadata |-> {}, table |-> {}, raised |-> None, mode |-> None,
     given |-> <<None, None, None, 1>>,
     table_name |-> None, schema |-> None, auto_upgrade_schema |-> FALSE,
     objects |-> ObjectsOf("none")]
\* PostgresStorage.__init__: the engine the instance will hold (None: none)
pg_init_engine(db_engine, db_url) ==
    IF db_engine # None THEN db_engine
    ELSE IF db_url # None THEN "create_engine(db_url)"
    ELSE None
\* SqliteStorage.__init__: the if / elif / else chain that sets _engine
sqlite_init_engine(db_engine, db_url, db_file) ==
    IF db_engine = None /\ db_url # None THEN "create_engine(db_url)"
    ELSE IF db_engine = None /\ db_file # None THEN "create_engine(db_file)"
    ELSE "create_engine(sqlite://)"
init_engine(b, db_engine, db_url, db_file) ==
    IF b = "postgres" THEN pg_init_engine(db_engine, db_url)
    ELSE sqlite_init_engine(db_engine, db_url, db_file)
\* Table(name, metadata, *columns, extend_existing=True): a table of that name
\* already in the MetaData keeps its columns and gets the new ones
Table(metadata, columns) == metadata \cup columns
\* (mutant) get_table() builds the version 1 table whatever the version
instance_get_table_any_version(b, schema_version, metadata, m) ==
    [raised |-> None,
     table |-> Table(metadata,
                     DOMAIN (IF b = "postgres" THEN pg_get_table_v1(m)
                                               ELSE sqlite_get_table_v1(m)))]
\* get_table() of an instance of class b: the handle, or the ValueError
instance_get_table(b, schema_version, metadata, m) ==
    IF schema_version = 1
    THEN [raised |-> None,
          table |-> Table(metadata,
                          DOMAIN (IF b = "postgres" THEN pg_get_table_v1(m)
                                                    ELSE sqlite_get_table_v1(m)))]
    ELSE [raised |-> "ValueError: Unsupported schema version", table |-> {}]
\* __init__ of PostgresStorage / SqliteStorage / YamlStorage
init(b, db_engine, db_url, db_file, schema_version, m) ==
    LET given == <<db_engine, db_url, db_file, schema_version>>
    IN
    IF b = "yaml"
    THEN [NoInstance EXCEPT !.status = "ok", !.mode = m, !.given = given]
    ELSE LET engine == init_engine(b, db_engine, db_url, db_file)
             t == instance_get_table(b, schema_version, {}, m)
         IN  IF engine = None
             THEN [NoInstance EXCEPT !.status = "ValueError: Must provide a connection",
                                     !.given = given]
             ELSE IF t.raised # None
             THEN [NoInstance EXCEPT !.status = t.raised, !.given = given]
             ELSE [status |-> "ok", db_engine |-> engine,
                   schema_version |-> schema_version,
                   metadata |-> t.table, table |-> t.table, raised |-> None,
                   mode |-> m, given |-> given,
                   table_name |-> "sessions",
                   schema |-> IF b = "postgres" THEN "ai" ELSE None,
                   auto_upgrade_schema |-> FALSE,
                   objects |-> ObjectsOf("self")]
\* the remaining keyword arguments of __init__, stored as they are given
\* (SqliteStorage has no schema)
init_config(b, instance, table_name, schema, auto_upgrade_schema) ==
    IF instance.status # "ok" \/ b = "yaml" THEN instance
    ELSE [instance EXCEPT !.table_name = table_name,
                          !.schema = IF b = "postgres" THEN schema ELSE None,
                          !.auto_upgrade_schema = auto_upgrade_schema]
\* (mutant) the copy is the original: every attribute is shared
deepcopy_by_reference(b, original) == original
\* __deepcopy__: db_engine and Session are set by reference, metadata, table
\* and inspector are skipped and built anew, everything else is deep-copied
deepcopy(b, original) ==
    LET t == instance_get_table(b, original.schema_version, {}, original.mode)
    IN  IF t.raised # None
        THEN [NoInstance EXCEPT !.status = t.raised]
        ELSE [original EXCEPT
                 !.raised = None, !.metadata = t.table, !.table = t.table,
                 !.objects = [k \in DOMAIN @ |->
                                 IF k \in {"metadata", "inspector", "table"}
                                 THEN ObjectsOf("copied_obj")[k] ELSE @[k]]]

\* ------------------------------------------------- transactional: upsert
\* insert(self.table).values(...)
pg_upsert_values(m, session) ==
    [k \in {"session_id", IdCol(m), "user_id", "memory", DataCol(m),
            "session_data", "extra_data"} |-> session[k]]
\* (mutant) the update also assigns created_at
pg_upsert_set_with_created_at(m, session, now) ==
    [k \in {IdCol(m), "user_id", "memory", DataCol(m), "session_data",
            "extra_data", "updated_at", "created_at"} |->
        IF k \in {"updated_at", "created_at"} THEN now ELSE session[k]]
\* .on_conflict_do_update(index_elements=["session_id"], set_=dict(...))
pg_upsert_set(m, session, now) ==
    [k \in {IdCol(m), "user_id", "memory", DataCol(m), "session_data",
            "extra_data", "updated_at"} |->
        IF k = "updated_at" THEN now ELSE session[k]]
\* (mutant) every row is inserted under one fixed session_id
sqlite_upsert_values_fixed_id(m, session) ==
    [k \in {"session_id", IdCol(m), "user_id", "memory", DataCol(m),
            "session_data", "extra_data"} |->
        IF k = "session_id" THEN "s1" ELSE session[k]]
sqlite_upsert_values(m, session) ==
    [k \in {"session_id", IdCol(m), "user_id", "memory", DataCol(m),
            "session_data", "extra_data"} |-> session[k]]
\* (mutant) the update leaves user_id as it was
sqlite_upsert_set_without_user_id(m, session, now) ==
    [k \in {IdCol(m), "memory", DataCol(m), "session_data",
            "extra_data", "updated_at"} |->
        IF k = "updated_at" THEN now ELSE session[k]]
sqlite_upsert_set(m, session, now) ==
    [k \in {IdCol(m), "user_id", "memory", DataCol(m), "session_data",
            "extra_data", "updated_at"} |->
        IF k = "updated_at" THEN now ELSE session[k]]

\* (mutant) a plain INSERT into a table without the primary key
ExecInsertAlways(tdef, tbl, values, set_, now) ==
    tbl \cup {[c \in DOMAIN tdef |->
                 IF c \in DOMAIN values THEN values[c]
                 ELSE IF tdef[c] = "now" THEN now ELSE NoneOf(c)]}
\* sess.execute(stmt) of INSERT ... ON CONFLICT (session_id) DO UPDATE SET ...
\* on table tbl with definition tdef, at database time now: one atomic statement
ExecInsertOnConflict(tdef, tbl, values, set_, now) ==
    LET hit == {r \in tbl : r["session_id"] = values["session_id"]}
    IN  IF hit = {}
        THEN tbl \cup
             {[c \in DOMAIN tdef |->
                 IF c \in DOMAIN values THEN values[c]
                 ELSE IF tdef[c] = "now" THEN now ELSE NoneOf(c)]}
        ELSE (tbl \ hit) \cup
             {[c \in DOMAIN r |-> IF c \in DOMAIN set_ THEN set_[c] ELSE r[c]] :
                 r \in hit}

upsert_stmt(tbl, session, now) ==
    IF backend = "postgres"
    THEN ExecInsertOnConflict(pg_get_table_v1(mode), tbl,
             pg_upsert_values(mode, session), pg_upsert_set(mode, session, now), now)
    ELSE ExecInsertOnConflict(sqlite_get_table_v1(mode), tbl,
             sqlite_upsert_values(mode, session), sqlite_upsert_set(mode, session, now), now)

\* --------------------------------------------------- transactional: read
\* select(table).where(session_id == :sid) [.where(user_id == :uid) if user_id]
pg_read_select(tbl, session_id, user_id) ==
    {r \in tbl : /\ r["session_id"] = session_id
                 /\ (Truthy(user_id) => r["user_id"] = user_id)}
sqlite_read_select(tbl, session_id, user_id) ==
    {r \in tbl : /\ r["session_id"] = session_id
                 /\ (Truthy(user_id) => r["user_id"] = user_id)}
read_select(tbl, session_id, user_id) ==
    IF backend = "postgres" THEN pg_read_select(tbl, session_id, user_id)
    ELSE sqlite_read_select(tbl, session_id, user_id)
\* fetchone() and from_dict(result._mapping)
read_result(m, sel) ==
    IF sel = {} THEN NoSession ELSE from_dict(m, CHOOSE r \in sel : TRUE)

\* ----------------------------------------------- transactional: listings
\* the WHERE clauses of get_all_session_ids
pg_ids_select(m, tbl, user_id, entity_id) ==
    {r \in tbl : /\ (user_id # None => r["user_id"] = user_id)
                 /\ (entity_id # None => r[IdCol(m)] = entity_id)}
sqlite_ids_select(m, tbl, user_id, entity_id) ==
    {r \in tbl : /\ (user_id # None => r["user_id"] = user_id)
                 /\ (entity_id # None => r[IdCol(m)] = entity_id)}
\* the WHERE clauses of get_all_sessions
pg_sessions_select(m, tbl, user_id, entity_id) ==
    {r \in tbl : /\ (user_id # None => r["user_id"] = user_id)
                 /\ (entity_id # None => r[IdCol(m)] = entity_id)}
sqlite_sessions_select(m, tbl, user_id, entity_id) ==
    {r \in tbl : /\ (user_id # None => r["user_id"] = user_id)
                 /\ (entity_id # None => r[IdCol(m)] = entity_id)}

\* every order in which a scan can yield the elements of S
Orders(S) ==
    {q \in [1..Cardinality(S) -> S] : \A i, j \in DOMAIN q : i # j => q[i] # q[j]}
\* (mutant) ORDER BY created_at ASC
OrderByCreatedAtAsc(S) ==
    {q \in Orders(S) :
        \A i, j \in DOMAIN q : i < j => q[i]["created_at"] <= q[j]["created_at"]}
\* ORDER BY created_at DESC: the order among equal created_at is the database's
OrderByCreatedAtDesc(S) ==
    {q \in Orders(S) :
        \A i, j \in DOMAIN q : i < j => q[i]["created_at"] >= q[j]["created_at"]}

\* the row sequences fetchall() can return, and what the method makes of them
get_all_session_ids_results(m, tbl, user_id, entity_id) ==
    LET sel == IF backend = "postgres" THEN pg_ids_select(m, tbl, user_id, entity_id)
               ELSE sqlite_ids_select(m, tbl, user_id, entity_id)
    IN  {[i \in DOMAIN q |-> q[i]["session_id"]] : q \in OrderByCreatedAtDesc(sel)}
get_all_sessions_results(m, tbl, user_id, entity_id) ==
    LET sel == IF backend = "postgres" THEN pg_sessions_select(m, tbl, user_id, entity_id)
               ELSE sqlite_sessions_select(m, tbl, user_id, entity_id)
    IN  {[i \in DOMAIN q |-> from_dict(m, q[i])] : q \in OrderByCreatedAtDesc(sel)}

\* ------------------------------------------------- transactional: delete
\* (mutant) DELETE without the WHERE clause
delete_stmt_all(tbl, session_id) == {}
\* table.delete().where(session_id == :sid)
delete_stmt(tbl, session_id) == {r \in tbl : r["session_id"] # session_id}

\* ------------------------------------------- transactional: table_exists
\* postgres: the schema must be listed, then inspector.has_table;
\* sqlite: a row of sqlite_master.  A failing check is caught and yields False.
pg_table_exists(failed) ==
    ~failed /\ (inst.schema # None => schemaExists) /\ tableExists
sqlite_table_exists(failed) == ~failed /\ tableExists
table_exists(failed) ==
    IF backend = "postgres" THEN pg_table_exists(failed) ELSE sqlite_table_exists(failed)

\* Exception handlers: does the handler call self.create()?
\* missing = the statement failed because the table does not exist
\* ("does not exist" / "no such table" in the message)
pg_read_creates(missing) == missing
\* (mutant) read() never creates the table
sqlite_read_never_creates(missing) == FALSE
sqlite_read_creates(missing) == missing
pg_list_creates(missing) == TRUE
sqlite_list_creates(missing) == missing
read_creates(missing) ==
    IF backend = "postgres" THEN pg_read_creates(missing) ELSE sqlite_read_creates(missing)
list_creates(missing) ==
    IF backend = "postgres" THEN pg_list_creates(missing) ELSE sqlite_list_creates(missing)


\* ------------------------------------------------------- document backend
\* yaml.dump(data, default_flow_style=False): one "key: value" line per key,
\* keys in sorted order; the text is the sequence of its lines
YamlKeyOrder ==
    <<"agent_data", "agent_id", "created_at", "extra_data", "memory",
      "session_data", "session_id", "updated_at", "user_id", "workflow_data",
      "workflow_id">>
serialize(data) ==
    LET present == SelectSeq(YamlKeyOrder, LAMBDA k : k \in DOMAIN data)
    IN  [i \in DOMAIN present |-> <<present[i], data[present[i]]>>]
\* yaml.safe_load(text): the mapping the lines spell out
deserialize(text) ==
    [k \in {text[i][1] : i \in DOMAIN text} |->
        (CHOOSE line \in {text[i] : i \in DOMAIN text} : line[1] = k)[2]]

\* open(dir_path / f"{name}.yaml", "w") ... f.write(text)
FileWrite(fs, name, text) ==
    [n \in DOMAIN fs \cup {name} |-> IF n = name THEN text ELSE fs[n]]
\* (mutant) the unlink removes every file of the directory
FileUnlink_every(fs, name) == << >>
\* unlink(missing_ok=True)
FileUnlink(fs, name) == [n \in DOMAIN fs \ {name} |-> fs[n]]

\* YamlStorage.read: the value returned when the file opens and parses
yaml_read(m, fs, session_id, user_id) ==
    IF session_id \notin DOMAIN fs
    THEN NoSession
    ELSE LET data == deserialize(fs[session_id])
         IN  IF Truthy(user_id) /\ data["user_id"] # user_id
             THEN NoSession
             ELSE from_dict(m, data)

\* the if / elif chain of YamlStorage.get_all_session_ids: is data appended?
yaml_ids_match(m, data, user_id, entity_id) ==
    IF Truthy(user_id) \/ Truthy(entity_id)
    THEN IF Truthy(user_id) /\ Truthy(entity_id)
         THEN data[IdCol(m)] = entity_id /\ data["user_id"] = user_id
         ELSE IF Truthy(user_id) /\ data["user_id"] = user_id
         THEN TRUE
         ELSE IF Truthy(entity_id)
         THEN data[IdCol(m)] = entity_id
         ELSE FALSE
    ELSE TRUE
\* the if / elif chain of YamlStorage.get_all_sessions
yaml_sessions_match(m, data, user_id, entity_id) ==
    IF Truthy(user_id) \/ Truthy(entity_id)
    THEN IF Truthy(user_id) /\ Truthy(entity_id)
         THEN data[IdCol(m)] = entity_id /\ data["user_id"] = user_id
         ELSE IF Truthy(user_id) /\ data["user_id"] = user_id
         THEN TRUE
         ELSE IF Truthy(entity_id)
         THEN data[IdCol(m)] = entity_id
         ELSE FALSE
    ELSE TRUE

\* YamlStorage.get_all_session_ids over a directory scan that yields the files
\* in the order scan (a sequence of stems): appended in scan order
yaml_get_all_session_ids(m, fs, scan, user_id, entity_id) ==
    LET kept == SelectSeq(scan, LAMBDA n :
                    yaml_ids_match(m, deserialize(fs[n]), user_id, entity_id))
    IN  [i \in DOMAIN kept |-> deserialize(fs[kept[i]])["session_id"]]
yaml_get_all_sessions(m, fs, scan, user_id, entity_id) ==
    LET kept == SelectSeq(scan, LAMBDA n :
                    yaml_sessions_match(m, deserialize(fs[n]), user_id, entity_id))
    IN  [i \in DOMAIN kept |-> from_dict(m, deserialize(fs[kept[i]]))]

\* (mutant) drop() leaves the files where they are
yaml_drop_nothing(fs) == fs
\* YamlStorage.drop: for file in glob("*.yaml"): file.unlink()
yaml_drop(fs) == << >>

\* YamlStorage.upsert: the mapping that is serialized into the file
yaml_upsert_data(session, now) ==
    LET d0 == asdict(session)
        d1 == [k \in DOMAIN d0 \cup {"updated_at"} |->
                  IF k = "updated_at" THEN now ELSE d0[k]]
    IN  IF "created_at" \notin DOMAIN d1
        THEN [k \in DOMAIN d1 \cup {"created_at"} |->
                  IF k = "created_at" THEN d1["updated_at"] ELSE d1[k]]
        ELSE d1
\* YamlStorage.upsert: the value returned on success
yaml_upsert_return(session, now) == session


\* ------------------------------------------------------------ call frames
IdleFrame ==
    [op |-> "none", session |-> NoSession, car |-> FALSE, flag |-> FALSE,
     sid |-> None, user |-> None, entity |-> None,
     ret |-> NoSession, list |-> <<>>,
     attempts |-> 0, creates |-> 0, steps |-> 0,
     raised |-> FALSE, faulted |-> FALSE,
     retpc |-> "idle", t_write |-> NoTime, existed |-> FALSE, lazy |-> FALSE,
     open |-> 0, unit |-> "none", pending |-> "none"]
\* the frame of a call that starts now; lazy: the container is missing
Begin(op) ==
    [IdleFrame EXCEPT !.op = op, !.lazy = Transactional /\ ~table_exists(FALSE)]

\* a step may be given a failure only where the failure changes what it does
FailChoices(relevant) == IF relevant THEN BOOLEAN ELSE {FALSE}
Mark(f, failed) == [f EXCEPT !.steps = @ + 1, !.faulted = @ \/ failed]

Goto(c, label, f) ==
    /\ pc' = [pc EXCEPT ![c] = label]
    /\ frame' = [frame EXCEPT ![c] = f]
\* the operation returns to its caller, which holds the result
Return(c, f) == Goto(c, "done", f)
\* an exception leaves the operation
Raise(c, f) ==
    Return(c, [f EXCEPT !.raised = TRUE, !.ret = NoSession, !.list = <<>>])

\* ------------------------------------------------ transactional: create()
\* (mutant) create() goes to table.create without asking table_exists()
CallCreate_unchecked(c, f, retpc) ==
    Goto(c, "create_table", [f EXCEPT !.creates = @ + 1, !.retpc = retpc])
\* self.create() is entered; when it returns control goes to retpc
CallCreate(c, f, retpc) ==
    Goto(c, "create_check", [f EXCEPT !.creates = @ + 1, !.retpc = retpc])
\* create() has returned
AfterCreate(c, f) ==
    IF f.retpc = "upsert_exec" THEN Goto(c, "upsert_exec", f) ELSE Return(c, f)

\* (mutant) create() goes to the table whatever the schema
pg_create_first_table(schema) == "create_table"
\* PostgresStorage.create: if self.schema is not None: CREATE SCHEMA ...;
\* then self.table.create(...)
pg_create_first(schema) ==
    IF schema # None THEN "create_schema" ELSE "create_table"

\* create(): if not self.table_exists()
CreateCheck(c) ==
    /\ pc[c] = "create_check"
    /\ \E failed \in FailChoices(table_exists(FALSE)) :
         LET f == Mark(frame[c], failed)
         IN  IF table_exists(failed)
             THEN AfterCreate(c, f)
             ELSE Goto(c, IF backend = "postgres"
                          THEN pg_create_first(inst.schema) ELSE "create_table", f)
    /\ UNCHANGED <<inst, copied, backend, mode, clock, storeVars>>

\* PostgresStorage.create(): CREATE SCHEMA IF NOT EXISTS, committed
CreateSchema(c) ==
    /\ pc[c] = "create_schema"
    /\ \E failed \in BOOLEAN :
         LET f == Mark(frame[c], failed)
         IN  IF failed
             THEN Raise(c, f) /\ UNCHANGED schemaExists
             ELSE schemaExists' = TRUE /\ Goto(c, "create_table", f)
    /\ UNCHANGED <<inst, copied, backend, mode, clock, tableExists, rows, files>>

\* (mutant) the table is created anew, empty, whether it exists or not
table_create_anew(exists, tbl) == {}
\* checkfirst=True: an existing table is left as it is
table_create(exists, tbl) == IF exists THEN tbl ELSE {}

\* self.table.create(self.db_engine, checkfirst=True)
CreateTable(c) ==
    /\ pc[c] = "create_table"
    /\ \E failed \in BOOLEAN :
         LET f == Mark(frame[c], failed)
         IN  IF failed \/ (/\ backend = "postgres" /\ inst.schema # None
                            /\ ~schemaExists)
             THEN Raise(c, f) /\ UNCHANGED <<tableExists, rows>>
             ELSE /\ tableExists' = TRUE
                  /\ rows' = table_create(tableExists, rows)
                  /\ AfterCreate(c, f)
    /\ UNCHANGED <<inst, copied, backend, mode, clock, schemaExists, files>>

\* Storage.create()
Create(c) ==
    /\ pc[c] = "idle"
    /\ IF Transactional
       THEN CallCreate(c, Begin("create"), "return")
       ELSE \* YamlStorage.create: the directory exists since construction
            Return(c, Mark(Begin("create"), FALSE))
    /\ UNCHANGED <<inst, copied, backend, mode, clock, storeVars>>

\* -------------------------------------------------- transactional: read()
\* the statement of read() runs; f is the frame of the operation it belongs to
ReadExec(c, f0, session_id, user_id) ==
    \E failed \in FailChoices(tableExists) :
      LET f == Mark(f0, failed)
      IN  IF ~tableExists
          THEN IF read_creates(TRUE)
               THEN CallCreate(c, [f EXCEPT !.ret = NoSession], "return")
               ELSE Return(c, [f EXCEPT !.ret = NoSession])
          ELSE IF failed
          THEN IF read_creates(FALSE)
               THEN CallCreate(c, [f EXCEPT !.ret = NoSession], "return")
               ELSE Return(c, [f EXCEPT !.ret = NoSession])
          ELSE Return(c, [f EXCEPT !.ret =
                   read_result(mode, read_select(rows, session_id, user_id))])

\* (mutant) the handler creates the table whatever the flag says
upsert_creates_unguarded(create_and_retry, exists) == ~exists
\* if create_and_retry and not self.table_exists(): with the flag False the
\* right operand is not evaluated
upsert_creates(create_and_retry, exists) == create_and_retry /\ ~exists

\* ------------------------------------------------ transactional: upsert()
\* one attempt: the try block of upsert(), and where its except clause goes
\* (car: the argument of the top-level call; flag: create_and_retry of the
\* invocation that is running)
UpsertExec(c, f0) ==
    \E failed \in FailChoices(tableExists) :
      LET f == [Mark(f0, failed) EXCEPT !.attempts = @ + 1]
          sid == f.session["session_id"]
      IN  IF ~tableExists \/ failed
          THEN /\ IF upsert_creates(f.flag, FALSE)
                  THEN Goto(c, "upsert_exists", f)
                  ELSE Return(c, [f EXCEPT !.ret = NoSession])
               /\ UNCHANGED rows
          ELSE /\ rows' = upsert_stmt(rows, f.session, clock)
               /\ Goto(c, "upsert_read",
                       [f EXCEPT !.t_write = clock,
                                 !.existed = \E r \in rows : r["session_id"] = sid])

\* the retried attempt: self.upsert(session, create_and_retry=False)
UpsertRetry(c) ==
    /\ pc[c] = "upsert_exec"
    /\ UpsertExec(c, frame[c])
    /\ UNCHANGED <<inst, copied, backend, mode, clock, schemaExists, tableExists, files>>

\* (mutant) the nested call passes its own flag on
retry_flag_kept(create_and_retry) == create_and_retry
\* the flag of the nested call: self.upsert(session, create_and_retry=False)
retry_flag(create_and_retry) == FALSE

\* except: if create_and_retry and not self.table_exists(): create(); retry
UpsertTableExists(c) ==
    /\ pc[c] = "upsert_exists"
    /\ \E failed \in FailChoices(table_exists(FALSE)) :
         LET f == Mark(frame[c], failed)
         IN  IF upsert_creates(f.flag, table_exists(failed))
             THEN CallCreate(c, [f EXCEPT !.flag = retry_flag(f.flag)], "upsert_exec")
             ELSE Return(c, [f EXCEPT !.ret = NoSession])
    /\ UNCHANGED <<inst, copied, backend, mode, clock, storeVars>>

\* return self.read(session_id=session.session_id)
UpsertRead(c) ==
    /\ pc[c] = "upsert_read"
    /\ ReadExec(c, frame[c], frame[c].session["session_id"], None)
    /\ UNCHANGED <<inst, copied, backend, mode, clock, storeVars>>


\* upsert(session, create_and_retry) with arguments drawn from the given sets
UpsertOf(c, sessions, flags) ==
    /\ pc[c] = "idle"
    /\ Transactional
    /\ \E session \in sessions, car \in flags :
         UpsertExec(c, [Begin("upsert") EXCEPT !.session = session, !.car = car,
                                              !.flag = car,
                                              !.sid = session["session_id"]])
    /\ UNCHANGED <<inst, copied, backend, mode, clock, schemaExists, tableExists, files>>

\* upsert(session, create_and_retry) on PostgresStorage / SqliteStorage
TxUpsert(c) ==
    /\ Transactional
    /\ UpsertOf(c, SessionInputs(mode, clock), BOOLEAN)

\* YamlStorage.upsert(session) with the session drawn from the given set
YamlUpsertOf(c, sessions) ==
    /\ pc[c] = "idle"
    /\ backend = "yaml"
    /\ \E session \in sessions, failed \in BOOLEAN :
         LET sid == session["session_id"]
             f == [Mark(Begin("upsert"), failed) EXCEPT
                      !.session = session, !.sid = sid, !.attempts = 1]
         IN  IF failed
             THEN Return(c, [f EXCEPT !.ret = NoSession]) /\ UNCHANGED files
             ELSE /\ files' = FileWrite(files, sid,
                                  serialize(yaml_upsert_data(session, clock)))
                  /\ Return(c, [f EXCEPT !.ret = yaml_upsert_return(session, clock),
                                         !.t_write = clock,
                                         !.existed = sid \in DOMAIN files])
    /\ UNCHANGED <<inst, copied, backend, mode, clock, schemaExists, tableExists, rows>>

\* YamlStorage.upsert(session) with a session of the store's mode
YamlUpsert(c) ==
    /\ backend = "yaml"
    /\ YamlUpsertOf(c, SessionInputs(mode, clock))
\* YamlStorage.upsert(session: Union[AgentSession, WorkflowSession])
YamlUpsertAnySession(c) ==
    /\ backend = "yaml"
    /\ YamlUpsertOf(c, SessionInputs("agent", clock) \cup SessionInputs("workflow", clock))

\* read(session_id, user_id) on PostgresStorage / SqliteStorage
TxRead(c) ==
    /\ pc[c] = "idle"
    /\ Transactional
    /\ \E session_id \in SessionIds, user_id \in UserFilters :
         ReadExec(c, [Begin("read") EXCEPT !.sid = session_id, !.user = user_id],
                  session_id, user_id)
    /\ UNCHANGED <<inst, copied, backend, mode, clock, storeVars>>

\* YamlStorage.read(session_id, user_id): only FileNotFoundError is caught
YamlRead(c) ==
    /\ pc[c] = "idle"
    /\ backend = "yaml"
    /\ \E session_id \in SessionIds, user_id \in UserFilters :
       \E failed \in FailChoices(session_id \in DOMAIN files) :
         LET f == [Mark(Begin("read"), failed) EXCEPT
                      !.sid = session_id, !.user = user_id]
         IN  IF failed
             THEN Raise(c, f)
             ELSE Return(c, [f EXCEPT !.ret =
                      yaml_read(mode, files, session_id, user_id)])
    /\ UNCHANGED <<inst, copied, backend, mode, clock, storeVars>>

\* what a listing of PostgresStorage / SqliteStorage does once its statement
\* has run (or failed): results is the set of row sequences it may fetch
TxListOutcome(c, f, results) ==
    IF ~tableExists \/ f.faulted
    THEN IF list_creates(~tableExists)
         THEN CallCreate(c, f, "return")
         ELSE Return(c, f)
    ELSE \E q \in results : Return(c, [f EXCEPT !.list = q])

\* get_all_session_ids(user_id, entity_id) on PostgresStorage / SqliteStorage
TxGetAllSessionIds(c) ==
    /\ pc[c] = "idle"
    /\ Transactional
    /\ \E user_id \in UserFilters, entity_id \in EntityFilters :
       \E failed \in FailChoices(tableExists) :
         TxListOutcome(c,
             [Mark(Begin("get_all_session_ids"), failed) EXCEPT
                 !.user = user_id, !.entity = entity_id],
             get_all_session_ids_results(mode, rows, user_id, entity_id))
    /\ UNCHANGED <<inst, copied, backend, mode, clock, storeVars>>

\* get_all_sessions(user_id, entity_id) on PostgresStorage / SqliteStorage
TxGetAllSessions(c) ==
    /\ pc[c] = "idle"
    /\ Transactional
    /\ \E user_id \in UserFilters, entity_id \in EntityFilters :
       \E failed \in FailChoices(tableExists) :
         TxListOutcome(c,
             [Mark(Begin("get_all_sessions"), failed) EXCEPT
                 !.user = user_id, !.entity = entity_id],
             get_all_sessions_results(mode, rows, user_id, entity_id))
    /\ UNCHANGED <<inst, copied, backend, mode, clock, storeVars>>

\* YamlStorage.get_all_session_ids: dir_path.glob("*.yaml") yields the files in
\* an order the file system chooses; no exception is caught
YamlGetAllSessionIds(c) ==
    /\ pc[c] = "idle"
    /\ backend = "yaml"
    /\ \E user_id \in UserFilters, entity_id \in EntityFilters :
       \E failed \in FailChoices(DOMAIN files # {}) :
         LET f == [Mark(Begin("get_all_session_ids"), failed) EXCEPT
                      !.user = user_id, !.entity = entity_id]
         IN  IF failed
             THEN Raise(c, f)
             ELSE \E scan \in Orders(DOMAIN files) :
                      Return(c, [f EXCEPT !.list =
                          yaml_get_all_session_ids(mode, files, scan, user_id, entity_id)])
    /\ UNCHANGED <<inst, copied, backend, mode, clock, storeVars>>

\* YamlStorage.get_all_sessions
YamlGetAllSessions(c) ==
    /\ pc[c] = "idle"
    /\ backend = "yaml"
    /\ \E user_id \in UserFilters, entity_id \in EntityFilters :
       \E failed \in FailChoices(DOMAIN files # {}) :
         LET f == [Mark(Begin("get_all_sessions"), failed) EXCEPT
                      !.user = user_id, !.entity = entity_id]
         IN  IF failed
             THEN Raise(c, f)
             ELSE \E scan \in Orders(DOMAIN files) :
                      Return(c, [f EXCEPT !.list =
                          yaml_get_all_sessions(mode, files, scan, user_id, entity_id)])
    /\ UNCHANGED <<inst, copied, backend, mode, clock, storeVars>>

\* delete_session(session_id) on PostgresStorage / SqliteStorage
TxDeleteSession(c) ==
    /\ pc[c] = "idle"
    /\ Transactional
    /\ \E session_id \in SessionIds \cup {None} :
       \E failed \in FailChoices(tableExists /\ session_id # None) :
         LET f == [Mark(Begin("delete_session"), failed) EXCEPT
                      !.sid = session_id,
                      !.existed = \E r \in rows : r["session_id"] = session_id]
         IN  /\ rows' = IF session_id = None \/ ~tableExists \/ failed
                        THEN rows
                        ELSE delete_stmt(rows, session_id)
             /\ Return(c, f)
    /\ UNCHANGED <<inst, copied, backend, mode, clock, schemaExists, tableExists, files>>

\* YamlStorage.delete_session(session_id)
YamlDeleteSession(c) ==
    /\ pc[c] = "idle"
    /\ backend = "yaml"
    /\ \E session_id \in SessionIds \cup {None} :
       \E failed \in FailChoices(session_id \in DOMAIN files) :
         LET f == [Mark(Begin("delete_session"), failed) EXCEPT
                      !.sid = session_id, !.existed = session_id \in DOMAIN files]
         IN  /\ files' = IF session_id = None \/ failed
                         THEN files
                         ELSE FileUnlink(files, session_id)
             /\ Return(c, f)
    /\ UNCHANGED <<inst, copied, backend, mode, clock, schemaExists, tableExists, rows>>

\* drop() on PostgresStorage / SqliteStorage: if self.table_exists()
TxDrop(c) ==
    /\ pc[c] = "idle"
    /\ Transactional
    /\ \E failed \in FailChoices(table_exists(FALSE)) :
         LET f == Mark(Begin("drop"), failed)
         IN  IF table_exists(failed)
             THEN Goto(c, "drop_table", f)
             ELSE Return(c, f)
    /\ UNCHANGED <<inst, copied, backend, mode, clock, storeVars>>

\* self.table.drop(self.db_engine): not inside a try block
DropTable(c) ==
    /\ pc[c] = "drop_table"
    /\ \E failed \in BOOLEAN :
         LET f == [Mark(frame[c], failed) EXCEPT !.existed = rows # {}]
         IN  IF failed \/ ~tableExists
             THEN Raise(c, f) /\ UNCHANGED <<tableExists, rows>>
             ELSE tableExists' = FALSE /\ rows' = {} /\ Return(c, f)
    /\ UNCHANGED <<inst, copied, backend, mode, clock, schemaExists, files>>

\* YamlStorage.drop(): unlink every *.yaml file; nothing is caught
YamlDrop(c) ==
    /\ pc[c] = "idle"
    /\ backend = "yaml"
    /\ \E failed \in FailChoices(DOMAIN files # {}) :
         LET f == [Mark(Begin("drop"), failed) EXCEPT !.existed = DOMAIN files # {}]
         IN  IF failed
             THEN Raise(c, f) /\ UNCHANGED files
             ELSE files' = yaml_drop(files) /\ Return(c, f)
    /\ UNCHANGED <<inst, copied, backend, mode, clock, schemaExists, tableExists, rows>>

\* upgrade_schema(): pass
UpgradeSchema(c) ==
    /\ pc[c] = "idle"
    /\ Return(c, Mark(Begin("upgrade_schema"), FALSE))
    /\ UNCHANGED <<inst, copied, backend, mode, clock, storeVars>>

\* the caller has taken the result of its call
Finish(c) ==
    /\ pc[c] = "done"
    /\ Goto(c, "idle", IdleFrame)
    /\ UNCHANGED <<inst, copied, backend, mode, clock, storeVars>>

\* time passes (a returned result is looked at in the instant of the return)
Tick ==
    /\ clock < MaxClock
    /\ \A c \in Callers : pc[c] # "done"
    /\ clock' = clock + 1
    /\ UNCHANGED <<inst, copied, backend, mode, storeVars, pc, frame>>

\* ------------------------------------- construction, mode, deep copy
\* PostgresStorage(...) / SqliteStorage(...): the constructor runs
Construct ==
    /\ inst.status = "absent"
    /\ \E db_engine \in EngineArgs, db_url \in UrlArgs, db_file \in FileArgs,
          schema_version \in SchemaVersions, table_name \in TableNames,
          schema \in Schemas, auto_upgrade_schema \in BOOLEAN :
         inst' = init_config(backend,
                             init(backend, db_engine, db_url,
                                  IF backend = "sqlite" THEN db_file ELSE None,
                                  schema_version, mode),
                             table_name, schema, auto_upgrade_schema)
    /\ UNCHANGED <<copied, backend, mode, clock, storeVars, pc, frame>>

\* Table(..., extend_existing=True) changes the MetaData and the Table object
\* in place: an instance that refers to the same objects as the instance whose
\* setter ran sees their new contents
seen_through(other, changed) ==
    [other EXCEPT
        !.metadata = IF other.objects["metadata"] = changed.objects["metadata"]
                     THEN changed.metadata ELSE @,
        !.table = IF other.objects["table"] = changed.objects["table"]
                  THEN changed.table ELSE @]

\* storage.mode = value: the setter stores the mode, then rebuilds the handle
SetMode ==
    /\ inst.status = "ok"
    /\ \E value \in Modes :
         LET t == instance_get_table(backend, inst.schema_version, inst.metadata, value)
         IN  /\ mode' = value
             /\ inst' = IF t.raised # None
                        THEN [inst EXCEPT !.raised = t.raised, !.mode = value]
                        ELSE [inst EXCEPT !.raised = None, !.mode = value,
                                          !.metadata = t.table, !.table = t.table]
             /\ copied' = seen_through(copied, inst')
    /\ UNCHANGED <<backend, clock, storeVars, pc, frame>>

\* duplicate.mode = value: the same setter, run on the copy
SetCopiedMode ==
    /\ inst.status = "ok"
    /\ copied.status = "ok"
    /\ \E value \in Modes :
         LET t == instance_get_table(backend, copied.schema_version,
                                     copied.metadata, value)
         IN  /\ copied' = IF t.raised # None
                          THEN [copied EXCEPT !.raised = t.raised, !.mode = value]
                          ELSE [copied EXCEPT !.raised = None, !.mode = value,
                                              !.metadata = t.table, !.table = t.table]
             /\ inst' = seen_through(inst, copied')
    /\ UNCHANGED <<backend, mode, clock, storeVars, pc, frame>>

\* storage.schema_version = v: the attribute is assigned
SetSchemaVersion ==
    /\ inst.status = "ok"
    /\ \E v \in SchemaVersions :
         inst' = [inst EXCEPT !.schema_version = v, !.raised = None]
    /\ UNCHANGED <<copied, backend, mode, clock, storeVars, pc, frame>>

\* copy.deepcopy(storage): __deepcopy__ shares db_engine, copies the other
\* attributes and rebuilds metadata and table from scratch
DeepCopy ==
    /\ inst.status = "ok"
    /\ copied' = deepcopy(backend, inst)
    /\ UNCHANGED <<inst, backend, mode, clock, storeVars, pc, frame>>

\* --------------------------------------------------------- specification
\* After construction: nothing has been created in the database (the
\* constructors only build handles); YamlStorage.__init__ made the directory.
Init ==
    /\ backend \in Backends
    /\ mode \in Modes
    /\ clock = 0
    /\ schemaExists = FALSE
    /\ tableExists = FALSE
    /\ rows = {}
    /\ files = << >>
    /\ pc = [c \in {1} |-> "idle"]
    /\ frame = [c \in {1} |-> IdleFrame]
    /\ inst = init(backend, None, "url", "file", 1, mode)
    /\ copied = NoInstance

Next ==
    \/ Tick
    \/ \E c \in {1} :
         \/ Create(c) \/ CreateCheck(c) \/ CreateSchema(c) \/ CreateTable(c)
         \/ TxRead(c) \/ YamlRead(c)
         \/ TxGetAllSessionIds(c) \/ YamlGetAllSessionIds(c)
         \/ TxGetAllSessions(c) \/ YamlGetAllSessions(c)
         \/ TxUpsert(c) \/ UpsertRetry(c) \/ UpsertTableExists(c) \/ UpsertRead(c)
         \/ YamlUpsert(c)
         \/ TxDeleteSession(c) \/ YamlDeleteSession(c)
         \/ TxDrop(c) \/ DropTable(c) \/ YamlDrop(c)
         \/ UpgradeSchema(c)
         \/ Finish(c)

Spec == Init /\ [][Next]_vars

\* Two handles on one database: caller 1 upserts through one PostgresStorage /
\* SqliteStorage instance while caller 2 drops the table through another.
InitShared ==
    /\ backend \in {"postgres", "sqlite"}
    /\ mode \in Modes
    /\ clock = 0
    /\ schemaExists = FALSE
    /\ tableExists = FALSE
    /\ rows = {}
    /\ files = << >>
    /\ pc = [c \in {1, 2} |-> "idle"]
    /\ frame = [c \in {1, 2} |-> IdleFrame]
    /\ inst = init(backend, None, "url", "file", 1, mode)
    /\ copied = NoInstance

NextShared ==
    \/ \E c \in {1} :
         TxUpsert(c) \/ UpsertRetry(c) \/ UpsertTableExists(c) \/ UpsertRead(c)
    \/ \E c \in {2} :
         TxDrop(c) \/ DropTable(c)
    \/ \E c \in {1, 2} :
         CreateCheck(c) \/ CreateSchema(c) \/ CreateTable(c) \/ Finish(c)

SpecShared == InitShared /\ [][NextShared]_vars

\* A PostgresStorage / SqliteStorage instance is constructed, its mode and
\* schema_version are assigned, and it is deep-copied.
InitHandle ==
    /\ backend \in {"postgres", "sqlite"}
    /\ mode \in Modes
    /\ clock = 0
    /\ schemaExists = FALSE
    /\ tableExists = FALSE
    /\ rows = {}
    /\ files = << >>
    /\ pc = [c \in {1} |-> "idle"]
    /\ frame = [c \in {1} |-> IdleFrame]
    /\ inst = NoInstance
    /\ copied = NoInstance

NextHandle == Construct \/ SetMode \/ SetSchemaVersion \/ DeepCopy

SpecHandle == InitHandle /\ [][NextHandle]_vars

\* The same, and the mode of the copy is assigned as well.
NextClone == NextHandle \/ SetCopiedMode

SpecClone == InitHandle /\ [][NextClone]_vars

\* A YamlStorage is handed sessions of either class.
InitAnySession ==
    /\ backend = "yaml"
    /\ mode \in Modes
    /\ clock = 0
    /\ schemaExists = FALSE
    /\ tableExists = FALSE
    /\ rows = {}
    /\ files = << >>
    /\ pc = [c \in {1} |-> "idle"]
    /\ frame = [c \in {1} |-> IdleFrame]
    /\ inst = init(backend, None, None, None, 1, mode)
    /\ copied = NoInstance

NextAnySession ==
    \/ Tick
    \/ \E c \in {1} : YamlUpsertAnySession(c) \/ YamlRead(c) \/ Finish(c)

SpecAnySession == InitAnySession /\ [][NextAnySession]_vars

\* Two independent callers upsert through PostgresStorage / SqliteStorage
\* handles on one database; every statement runs in its own unit of work.
\* the sessions the two callers write: one session_id, one entity, two
\* contents that differ in every other column, created_at unset
WriterInputs == {s \in SessionInputs(mode, clock) :
                    /\ s["session_id"] = "s1" /\ s[IdCol(mode)] = "e1"
                    /\ s["created_at"] = NoTime}
\* upsert(session) with the default create_and_retry = True
WriterUpsert(c) ==
    /\ Transactional
    /\ UpsertOf(c, WriterInputs, {TRUE})

NextWriters ==
    \/ Tick
    \/ \E c \in {1, 2} :
         \/ WriterUpsert(c) \/ UpsertRetry(c) \/ UpsertTableExists(c) \/ UpsertRead(c)
         \/ CreateCheck(c) \/ CreateSchema(c) \/ CreateTable(c)
         \/ Finish(c)

SpecWriters == InitShared /\ [][NextWriters]_vars

\* One call sequence run against two stores side by side: rows is the table
\* of a PostgresStorage / SqliteStorage, files the directory of a YamlStorage
\* of the same mode, under one clock.  Each step is one whole call made on
\* both stores with the same arguments and no failure; caller 1's frame holds
\* what the transactional store returned, caller 2's what the document store
\* returned.
PairReturn(op, ret1, list1, ret2, list2) ==
    /\ pc' = [c \in {1, 2} |-> "done"]
    /\ frame' = [c \in {1, 2} |->
                    [Begin(op) EXCEPT !.ret = IF c = 1 THEN ret1 ELSE ret2,
                                      !.list = IF c = 1 THEN list1 ELSE list2]]
\* create() has run on the transactional store: schema (postgres) and table exist
PairContainer(created) ==
    /\ tableExists' = (tableExists \/ created)
    /\ schemaExists' = (schemaExists \/ (created /\ backend = "postgres"))
PairIdle == \A c \in {1, 2} : pc[c] = "idle"

PairCreate ==
    /\ PairIdle
    /\ PairContainer(TRUE)
    /\ PairReturn("create", NoSession, << >>, NoSession, << >>)
    /\ UNCHANGED <<inst, copied, backend, mode, clock, rows, files>>

\* upsert(session): the statement, create() and one retry when the table is
\* missing, then read(session_id); the document store writes the file and
\* returns the session it was given
PairUpsert ==
    /\ PairIdle
    /\ \E session \in SessionInputs(mode, clock) :
         LET sid == session["session_id"]
             written == upsert_stmt(rows, session, clock)
         IN  /\ rows' = written
             /\ PairContainer(TRUE)
             /\ files' = FileWrite(files, sid,
                             serialize(yaml_upsert_data(session, clock)))
             /\ PairReturn("upsert",
                           read_result(mode, read_select(written, sid, None)), << >>,
                           yaml_upsert_return(session, clock), << >>)
    /\ UNCHANGED <<inst, copied, backend, mode, clock>>

PairRead ==
    /\ PairIdle
    /\ \E session_id \in SessionIds, user_id \in UserFilters :
         PairReturn("read",
                    read_result(mode, read_select(rows, session_id, user_id)), << >>,
                    yaml_read(mode, files, session_id, user_id), << >>)
    /\ PairContainer(~table_exists(FALSE) /\ read_creates(~tableExists))
    /\ UNCHANGED <<inst, copied, backend, mode, clock, rows, files>>

PairGetAllSessionIds ==
    /\ PairIdle
    /\ \E user_id \in UserFilters, entity_id \in EntityFilters :
       \E q \in get_all_session_ids_results(mode, rows, user_id, entity_id),
          scan \in Orders(DOMAIN files) :
         PairReturn("get_all_session_ids", NoSession, q, NoSession,
                    yaml_get_all_session_ids(mode, files, scan, user_id, entity_id))
    /\ PairContainer(~table_exists(FALSE) /\ list_creates(~tableExists))
    /\ UNCHANGED <<inst, copied, backend, mode, clock, rows, files>>

PairGetAllSessions ==
    /\ PairIdle
    /\ \E user_id \in UserFilters, entity_id \in EntityFilters :
       \E q \in get_all_sessions_results(mode, rows, user_id, entity_id),
          scan \in Orders(DOMAIN files) :
         PairReturn("get_all_sessions", NoSession, q, NoSession,
                    yaml_get_all_sessions(mode, files, scan, user_id, entity_id))
    /\ PairContainer(~table_exists(FALSE) /\ list_creates(~tableExists))
    /\ UNCHANGED <<inst, copied, backend, mode, clock, rows, files>>

PairDeleteSession ==
    /\ PairIdle
    /\ \E session_id \in SessionIds :
         /\ rows' = delete_stmt(rows, session_id)
         /\ files' = FileUnlink(files, session_id)
    /\ PairReturn("delete_session", NoSession, << >>, NoSession, << >>)
    /\ UNCHANGED <<inst, copied, backend, mode, clock, schemaExists, tableExists>>

PairDrop ==
    /\ PairIdle
    /\ tableExists' = FALSE
    /\ rows' = {}
    /\ files' = yaml_drop(files)
    /\ PairReturn("drop", NoSession, << >>, NoSession, << >>)
    /\ UNCHANGED <<inst, copied, backend, mode, clock, schemaExists>>

\* both results have been looked at
PairFinish ==
    /\ \A c \in {1, 2} : pc[c] = "done"
    /\ pc' = [c \in {1, 2} |-> "idle"]
    /\ frame' = [c \in {1, 2} |-> IdleFrame]
    /\ UNCHANGED <<inst, copied, backend, mode, clock, storeVars>>

NextPair ==
    \/ Tick
    \/ PairCreate \/ PairUpsert \/ PairRead
    \/ PairGetAllSessionIds \/ PairGetAllSessions
    \/ PairDeleteSession \/ PairDrop
    \/ PairFinish

SpecPair == InitShared /\ [][NextPair]_vars

\* Two callers upsert the same session_id on one YamlStorage directory.  Here
\* a file is the sequence of its characters, and the call is taken in the two
\* steps the operating system sees: open(path, "w") truncates the file (or
\* creates it empty) and gives the caller a position 0 of its own; f.write
\* and the close at the end of the with block put the text at that position
\* and leave whatever lies beyond its end.
\* yaml.dump: how many units of text the line(s) of a key take; the second
\* blob of a field is a mapping with one more entry than the first
Width(k, v) == IF k \in DOMAIN BlobTable /\ v = Blob(k, 2) THEN 2 ELSE 1
RECURSIVE Chars(_)
\* the characters of the text serialize() returns
Chars(text) ==
    IF text = << >> THEN << >>
    ELSE LET line == Head(text)
         IN  [j \in 1..Width(line[1], line[2]) |-> <<line[1], line[2], j>>]
                \o Chars(Tail(text))
\* write(2) of data at position 0 of a file that holds content
Overwrite(content, data) ==
    data \o SubSeq(content, Len(data) + 1, Len(content))

\* data = asdict(session); data["updated_at"] = int(time.time()); open(..., "w")
YamlOpenWrite(c) ==
    /\ pc[c] = "idle"
    /\ backend = "yaml"
    /\ \E session \in WriterInputs :
         LET sid == session["session_id"]
         IN  /\ files' = FileWrite(files, sid, << >>)
             /\ Goto(c, "yaml_write",
                     [Begin("upsert") EXCEPT !.session = session, !.sid = sid,
                                             !.attempts = 1, !.t_write = clock,
                                             !.existed = sid \in DOMAIN files])
    /\ UNCHANGED <<inst, copied, backend, mode, clock, schemaExists, tableExists, rows>>

\* f.write(self.serialize(data)), the file is closed, return session
YamlWriteClose(c) ==
    /\ pc[c] = "yaml_write"
    /\ LET f == frame[c]
           text == Chars(serialize(yaml_upsert_data(f.session, f.t_write)))
       IN  /\ files' = FileWrite(files, f.sid, Overwrite(files[f.sid], text))
           /\ Return(c, [f EXCEPT !.ret = yaml_upsert_return(f.session, f.t_write),
                                  !.steps = @ + 1])
    /\ UNCHANGED <<inst, copied, backend, mode, clock, schemaExists, tableExists, rows>>

InitRace ==
    /\ backend = "yaml"
    /\ mode \in Modes
    /\ clock = 0
    /\ schemaExists = FALSE
    /\ tableExists = FALSE
    /\ rows = {}
    /\ files = << >>
    /\ pc = [c \in {1, 2} |-> "idle"]
    /\ frame = [c \in {1, 2} |-> IdleFrame]
    /\ inst = init(backend, None, "url", "file", 1, mode)
    /\ copied = NoInstance

NextRace ==
    \/ Tick
    \/ \E c \in {1, 2} : YamlOpenWrite(c) \/ YamlWriteClose(c) \/ Finish(c)

SpecRace == InitRace /\ [][NextRace]_vars

\* Two callers upsert on a database that has never been initialized.  Here
\* table.create(engine, checkfirst=True) is taken in the two statements the
\* library issues: the has_table check, then CREATE TABLE, which the database
\* rejects when the table has appeared in between.
\* the sessions the callers write: either session_id, created_at unset
CreatorInputs == {s \in SessionInputs(mode, clock) :
                     /\ s["user_id"] = "u1" /\ s[IdCol(mode)] = "e1"
                     /\ s["created_at"] = NoTime}
CreatorUpsert(c) ==
    /\ Transactional
    /\ UpsertOf(c, CreatorInputs, {TRUE})

\* table.create(checkfirst=True): the has_table check
CreateTableFirst(c) ==
    /\ pc[c] = "create_table"
    /\ \E failed \in BOOLEAN :
         LET f == Mark(frame[c], failed)
         IN  IF failed \/ (backend = "postgres" /\ ~schemaExists)
             THEN Raise(c, f)
             ELSE IF tableExists
             THEN AfterCreate(c, f)
             ELSE Goto(c, "create_table_ddl", f)
    /\ UNCHANGED <<inst, copied, backend, mode, clock, storeVars>>

\* table.create(checkfirst=True): CREATE TABLE
CreateTableDDL(c) ==
    /\ pc[c] = "create_table_ddl"
    /\ \E failed \in BOOLEAN :
         LET f == Mark(frame[c], failed)
         IN  IF failed \/ tableExists
             THEN Raise(c, f) /\ UNCHANGED <<tableExists, rows>>
             ELSE /\ tableExists' = TRUE
                  /\ rows' = {}
                  /\ AfterCreate(c, f)
    /\ UNCHANGED <<inst, copied, backend, mode, clock, schemaExists, files>>

NextCreators ==
    \E c \in {1, 2} :
         \/ CreatorUpsert(c) \/ UpsertRetry(c) \/ UpsertTableExists(c) \/ UpsertRead(c)
         \/ CreateCheck(c) \/ CreateSchema(c)
         \/ CreateTableFirst(c) \/ CreateTableDDL(c)
         \/ Finish(c)

SpecCreators == InitShared /\ [][NextCreators]_vars

\* One caller upserts on a YamlStorage directory while another reads and
\* lists it.  Files are sequences of characters as above; a file that has
\* been opened for writing and not yet written is empty, yaml.safe_load of
\* it is None, and subscripting None raises TypeError.
\* what a reading call comes to: it raised, or it returned ret / list
ScanOutcome(raised, ret, list) == [raised |-> raised, ret |-> ret, list |-> list]
Unwritten(fs) == {n \in DOMAIN fs : fs[n] = << >>}
\* YamlStorage.read over such a directory
scan_read(m, fs, session_id, user_id) ==
    IF session_id \in Unwritten(fs)
    THEN IF Truthy(user_id)
         THEN ScanOutcome(TRUE, NoSession, << >>)
         ELSE ScanOutcome(FALSE, from_dict(m, << >>), << >>)
    ELSE ScanOutcome(FALSE, yaml_read(m, fs, session_id, user_id), << >>)
\* YamlStorage.get_all_session_ids: every branch subscripts data
scan_get_all_session_ids(m, fs, scan, user_id, entity_id) ==
    IF Unwritten(fs) # {}
    THEN ScanOutcome(TRUE, NoSession, << >>)
    ELSE ScanOutcome(FALSE, NoSession,
                     yaml_get_all_session_ids(m, fs, scan, user_id, entity_id))
\* YamlStorage.get_all_sessions: the filter branches subscript data, the
\* branch without filters appends from_dict(data)
scan_get_all_sessions(m, fs, scan, user_id, entity_id) ==
    IF Unwritten(fs) # {} /\ (Truthy(user_id) \/ Truthy(entity_id))
    THEN ScanOutcome(TRUE, NoSession, << >>)
    ELSE ScanOutcome(FALSE, NoSession,
                     yaml_get_all_sessions(m, fs, scan, user_id, entity_id))
\* the reading call ends as outcome o says
ScanEnd(c, f, o) ==
    IF o.raised THEN Raise(c, f)
    ELSE Return(c, [f EXCEPT !.ret = o.ret, !.list = o.list])

ScanRead(c) ==
    /\ pc[c] = "idle"
    /\ backend = "yaml"
    /\ \E session_id \in SessionIds, user_id \in UserFilters :
         ScanEnd(c, [Mark(Begin("read"), FALSE) EXCEPT
                        !.sid = session_id, !.user = user_id],
                 scan_read(mode, files, session_id, user_id))
    /\ UNCHANGED <<inst, copied, backend, mode, clock, storeVars>>

ScanGetAllSessionIds(c) ==
    /\ pc[c] = "idle"
    /\ backend = "yaml"
    /\ \E user_id \in UserFilters, entity_id \in EntityFilters,
          scan \in Orders(DOMAIN files) :
         ScanEnd(c, [Mark(Begin("get_all_session_ids"), FALSE) EXCEPT
                        !.user = user_id, !.entity = entity_id],
                 scan_get_all_session_ids(mode, files, scan, user_id, entity_id))
    /\ UNCHANGED <<inst, copied, backend, mode, clock, storeVars>>

ScanGetAllSessions(c) ==
    /\ pc[c] = "idle"
    /\ backend = "yaml"
    /\ \E user_id \in UserFilters, entity_id \in EntityFilters,
          scan \in Orders(DOMAIN files) :
         ScanEnd(c, [Mark(Begin("get_all_sessions"), FALSE) EXCEPT
                        !.user = user_id, !.entity = entity_id],
                 scan_get_all_sessions(mode, files, scan, user_id, entity_id))
    /\ UNCHANGED <<inst, copied, backend, mode, clock, storeVars>>

NextScan ==
    \/ Tick
    \/ \E c \in {1} : YamlOpenWrite(c) \/ YamlWriteClose(c)
    \/ \E c \in {2} : ScanRead(c) \/ ScanGetAllSessionIds(c) \/ ScanGetAllSessions(c)
    \/ \E c \in {1, 2} : Finish(c)

SpecScan == InitRace /\ [][NextScan]_vars

\* The units of work.  Every statement of PostgresStorage / SqliteStorage
\* runs inside `with self.Session() as sess[, sess.begin()]:` and every file
\* access of YamlStorage inside `with open(...) as f:`; the try block is
\* around the with block, so a handler runs after the block has been left.
\* Here a with block is taken in three steps (enter, body, exit), the frame
\* counts the units the call holds (open), and only what decides the control
\* flow is kept of the store: whether the container exists.
\*   unit: which block the call is in ("stmt": the statement of the
\*   operation, "readback": the read at the end of upsert, "exists" /
\*   "create_exists": the sqlite_master query of table_exists() in upsert's
\*   handler / in create(), "create": the block of create())
\*   pending: the exception on its way out of the block ("none", "missing":
\*   no such table / no such file, "other")
UnitOps == {"read", "get_all_session_ids", "get_all_sessions", "upsert",
            "delete_session", "create"}
UnitListings == {"get_all_session_ids", "get_all_sessions"}
\* the units held after __enter__ has succeeded
acquire(open) == open + 1
\* (mutant) the unit is released only when the body did not raise
release_on_success(open, raising) == IF raising THEN open ELSE open - 1
\* the units held after __exit__, which runs whether the body raised or not
release(open, raising) == open - 1

UnitStart(c, f, unit) ==
    Goto(c, "with_enter", [f EXCEPT !.unit = unit, !.pending = "none"])
\* create() has returned to the handler that called it, or to the caller
UnitAfterCreate(c, f) ==
    IF f.retpc = "upsert_exec"
    THEN UnitStart(c, [f EXCEPT !.attempts = @ + 1], "stmt")
    ELSE Return(c, f)
\* what follows the answer of table_exists()
UnitAfterExists(c, f, exists) ==
    IF f.unit = "create_exists"
    THEN IF exists THEN UnitAfterCreate(c, f) ELSE UnitStart(c, f, "create")
    ELSE IF upsert_creates(f.flag, exists)
    THEN Goto(c, "unit_create", [f EXCEPT !.flag = retry_flag(f.flag),
                                          !.retpc = "upsert_exec"])
    ELSE Return(c, [f EXCEPT !.ret = NoSession])
\* table_exists(): SqliteStorage queries sqlite_master in a session of its
\* own, PostgresStorage asks the inspector (no session)
UnitTableExists(c, f, unit) ==
    IF backend = "sqlite"
    THEN UnitStart(c, f, unit)
    ELSE \E failed \in FailChoices(table_exists(FALSE)) :
            UnitAfterExists(c, [f EXCEPT !.unit = unit], table_exists(failed))
\* where control goes once the block has been left
UnitLeave(c, f) ==
    LET ok == f.pending = "none"
        missing == f.pending = "missing"
    IN
    IF backend = "yaml"
    THEN CASE f.op = "read" ->
                 IF ok \/ missing THEN Return(c, f) ELSE Raise(c, f)
           [] f.op = "upsert" -> Return(c, f)
           [] OTHER ->
                 IF ~ok THEN Raise(c, f)
                 ELSE IF f.steps > 1
                 THEN UnitStart(c, [f EXCEPT !.steps = @ - 1], "stmt")
                 ELSE Return(c, f)
    ELSE CASE f.unit \in {"exists", "create_exists"} ->
                 UnitAfterExists(c, f, ok /\ tableExists)
           [] f.unit = "create" ->
                 IF ~ok THEN Raise(c, f)
                 ELSE IF backend = "postgres" THEN Goto(c, "unit_create_table", f)
                 ELSE UnitAfterCreate(c, f)
           [] f.unit = "readback" \/ (f.unit = "stmt" /\ f.op = "read") ->
                 IF ~ok /\ read_creates(missing)
                 THEN Goto(c, "unit_create", [f EXCEPT !.retpc = "return"])
                 ELSE Return(c, f)
           [] f.unit = "stmt" /\ f.op \in UnitListings ->
                 IF ~ok /\ list_creates(missing)
                 THEN Goto(c, "unit_create", [f EXCEPT !.retpc = "return"])
                 ELSE Return(c, f)
           [] f.unit = "stmt" /\ f.op = "upsert" ->
                 IF ok THEN UnitStart(c, f, "readback")
                 ELSE IF upsert_creates(f.flag, FALSE)
                 THEN UnitTableExists(c, f, "exists")
                 ELSE Return(c, f)
           [] OTHER -> Return(c, f)

\* a caller calls one of the operations
UnitCall(c) ==
    /\ pc[c] = "idle"
    /\ \E op \in UnitOps, car \in BOOLEAN, found \in 0..Cardinality(SessionIds) :
         LET f == [Begin(op) EXCEPT !.car = car /\ op = "upsert",
                                    !.flag = car /\ op = "upsert",
                                    !.attempts = 1,
                                    !.steps = IF backend = "yaml" /\ op \in UnitListings
                                              THEN found ELSE 0]
         IN  IF op = "create"
             THEN IF Transactional
                  THEN Goto(c, "unit_create", [f EXCEPT !.retpc = "return"])
                  ELSE Return(c, f)
             ELSE IF backend = "yaml" /\ (op = "delete_session" \/
                                          (op \in UnitListings /\ found = 0))
             THEN Return(c, f)
             ELSE UnitStart(c, f, "stmt")
    /\ UNCHANGED <<inst, copied, backend, mode, clock, storeVars>>

\* self.create() is entered: if not self.table_exists()
UnitCreate(c) ==
    /\ pc[c] = "unit_create"
    /\ UnitTableExists(c, [frame[c] EXCEPT !.creates = @ + 1], "create_exists")
    /\ UNCHANGED <<inst, copied, backend, mode, clock, storeVars>>

\* with self.Session() as sess, sess.begin(): / with open(...) as f: __enter__
UnitEnter(c) ==
    /\ pc[c] = "with_enter"
    /\ \E failure \in {"none", "other"} \cup
                       (IF backend = "yaml" /\ frame[c].op = "read"
                        THEN {"missing"} ELSE {}) :
         IF failure = "none"
         THEN Goto(c, "with_body", [frame[c] EXCEPT !.open = acquire(@)])
         ELSE UnitLeave(c, [frame[c] EXCEPT !.pending = failure, !.faulted = TRUE])
    /\ UNCHANGED <<inst, copied, backend, mode, clock, storeVars>>

\* the body of the with block: the statement runs, or raises
UnitBody(c) ==
    /\ pc[c] = "with_body"
    /\ LET f == frame[c]
           onTable == Transactional /\ f.unit \in {"stmt", "readback"}
       IN  \E outcome \in IF onTable /\ ~tableExists THEN {"missing"}
                           ELSE {"none", "other"} :
              /\ Goto(c, "with_exit", [f EXCEPT !.pending = outcome,
                                                !.faulted = @ \/ outcome = "other"])
              /\ IF f.unit = "create" /\ outcome = "none"
                 THEN IF backend = "postgres"
                      THEN schemaExists' = TRUE /\ UNCHANGED <<tableExists, rows>>
                      ELSE /\ tableExists' = TRUE
                           /\ rows' = IF tableExists THEN rows ELSE {}
                           /\ UNCHANGED schemaExists
                 ELSE UNCHANGED <<schemaExists, tableExists, rows>>
    /\ UNCHANGED <<inst, copied, backend, mode, clock, files>>

\* __exit__ of the with block, then the except clause or the code after it
UnitExit(c) ==
    /\ pc[c] = "with_exit"
    /\ UnitLeave(c, [frame[c] EXCEPT
                        !.open = release(@, frame[c].pending # "none")])
    /\ UNCHANGED <<inst, copied, backend, mode, clock, storeVars>>

\* PostgresStorage.create: self.table.create(self.db_engine, checkfirst=True),
\* after the with block
UnitCreateTable(c) ==
    /\ pc[c] = "unit_create_table"
    /\ \E failed \in BOOLEAN :
         LET f == Mark(frame[c], failed)
         IN  IF failed \/ ~schemaExists
             THEN Raise(c, f) /\ UNCHANGED <<tableExists, rows>>
             ELSE /\ tableExists' = TRUE
                  /\ rows' = IF tableExists THEN rows ELSE {}
                  /\ UnitAfterCreate(c, f)
    /\ UNCHANGED <<inst, copied, backend, mode, clock, schemaExists, files>>

NextUnits ==
    \E c \in {1} :
        \/ UnitCall(c) \/ UnitCreate(c)
        \/ UnitEnter(c) \/ UnitBody(c) \/ UnitExit(c)
        \/ UnitCreateTable(c)
        \/ TxDrop(c) \/ DropTable(c)
        \/ Finish(c)

SpecUnits == Init /\ [][NextUnits]_vars

\* A PostgresStorage constructed with schema "ai" or with schema None, on a
\* database where neither the schema nor the table exists.
InitSchema ==
    /\ backend = "postgres"
    /\ mode \in Modes
    /\ clock = 0
    /\ schemaExists = FALSE
    /\ tableExists = FALSE
    /\ rows = {}
    /\ files = << >>
    /\ pc = [c \in {1} |-> "idle"]
    /\ frame = [c \in {1} |-> IdleFrame]
    /\ \E schema \in Schemas :
         inst = init_config(backend, init(backend, None, "url", None, 1, mode),
                            "sessions", schema, FALSE)
    /\ copied = NoInstance

NextSchema ==
    \E c \in {1} :
        \/ Create(c) \/ CreateCheck(c) \/ CreateSchema(c) \/ CreateTable(c)
        \/ TxRead(c)
        \/ TxDrop(c) \/ DropTable(c)
        \/ Finish(c)

SpecSchema == InitSchema /\ [][NextSchema]_vars


\* ================================================================ claims
\* what read(session_id) returns in the current state when nothing fails
ReadNow(session_id) ==
    IF Transactional
    THEN read_result(mode, read_select(rows, session_id, None))
    ELSE yaml_read(mode, files, session_id, None)
\* the session records the store holds
StoredSessions ==
    {ReadNow(sid) : sid \in SessionIds} \ {NoSession}
\* caller c holds the result of a call of op that returned normally
Returned(c, op) == pc[c] = "done" /\ frame[c].op = op /\ ~frame[c].raised
\* this step is the write of an upsert by caller c
WritesNow(c) ==
    /\ frame'[c].op = "upsert"
    /\ frame'[c].t_write # NoTime
    /\ (frame[c].op # "upsert" \/ frame[c].t_write = NoTime)

\* C1: transactional backend: across every upsert of a session_id that is
\* already stored, the created_at that read(session_id) returns stays what it
\* was, whatever created_at the incoming session carries.
C1_CreatedAtWriteOnce ==
    [][Transactional =>
        \A sid \in SessionIds :
            (ReadNow(sid) # NoSession /\ ReadNow(sid)' # NoSession)
                => ReadNow(sid)'["created_at"] = ReadNow(sid)["created_at"]]_vars
\* an upsert has updated a stored session whose created_at differs from the
\* one the incoming session carried
C1_Witness ==
    \E c \in Callers :
        /\ Returned(c, "upsert") /\ Transactional
        /\ frame[c].existed
        /\ frame[c].session["created_at"] # NoTime
        /\ frame[c].ret # NoSession
        /\ frame[c].ret["created_at"] # frame[c].session["created_at"]

\* C2: round trip, every backend: after an upsert of S has written, read
\* returns a record equal to S on every field but updated_at (created_at
\* included), with updated_at a number >= the clock at the write.
C2_RoundTrip ==
    \A c \in Callers :
        (Returned(c, "upsert") /\ frame[c].t_write # NoTime) =>
            LET S == frame[c].session
                rec == ReadNow(frame[c].sid)
            IN  /\ rec # NoSession
                /\ \A k \in DOMAIN S \ {"updated_at"} : rec[k] = S[k]
                /\ rec["updated_at"] # NoTime
                /\ rec["updated_at"] >= frame[c].t_write

\* C3: every backend: what a successful upsert returns is, field for field,
\* what read(S.session_id) returns immediately afterwards.
C3_UpsertReturnsFreshRead ==
    \A c \in Callers :
        (Returned(c, "upsert") /\ frame[c].ret # NoSession) =>
            frame[c].ret = ReadNow(frame[c].sid)

\* C4: every backend: an upsert of a session_id that is already stored leaves
\* an updated_at that is >= the updated_at stored before it, both being numbers
\* (the upsert that inserted the record set the first of them).
C4_UpdatedAtMonotone ==
    [][\A c \in Callers, sid \in SessionIds :
        (WritesNow(c) /\ frame'[c].existed /\ frame'[c].sid = sid) =>
            /\ ReadNow(sid)["updated_at"] # NoTime
            /\ ReadNow(sid)'["updated_at"] # NoTime
            /\ ReadNow(sid)'["updated_at"] >= ReadNow(sid)["updated_at"]]_vars

\* C5: every backend: read(id, user_id=U) with U given (any string, the empty
\* one included) returns none when the stored user_id differs from U, and
\* read(id) without a filter returns the stored record.
C5_UserFilter ==
    \A c \in Callers :
        (Returned(c, "read") /\ ~frame[c].faulted /\ ReadNow(frame[c].sid) # NoSession) =>
            LET stored == ReadNow(frame[c].sid)
            IN  /\ (frame[c].user # None /\ stored["user_id"] # frame[c].user)
                       => frame[c].ret = NoSession
                /\ frame[c].user = None => frame[c].ret = stored


\* q is in descending order of key
SortedDesc(q, key(_)) ==
    \A i, j \in DOMAIN q : i < j => key(q[i]) >= key(q[j])
CreatedAtOf(session) == session["created_at"]
CreatedAtOfId(sid) == ReadNow(sid)["created_at"]
SessionIdsOf(q) == [i \in DOMAIN q |-> q[i]["session_id"]]
IsListing(op) == op \in {"get_all_session_ids", "get_all_sessions"}

\* C6: transactional backend: both listings come back in descending order of
\* created_at, and for the same filters get_all_session_ids returns the
\* session_id projection of a get_all_sessions result (the order among equal
\* created_at is the database's).
C6_TxListingOrder ==
    \A c \in Callers :
        (Transactional /\ pc[c] = "done" /\ ~frame[c].raised /\ ~frame[c].faulted) =>
            LET f == frame[c]
            IN  /\ f.op = "get_all_sessions" =>
                    /\ SortedDesc(f.list, CreatedAtOf)
                    /\ SessionIdsOf(f.list) \in
                           get_all_session_ids_results(mode, rows, f.user, f.entity)
                /\ f.op = "get_all_session_ids" =>
                    /\ SortedDesc(f.list, CreatedAtOfId)
                    /\ f.list \in {SessionIdsOf(q) :
                           q \in get_all_sessions_results(mode, rows, f.user, f.entity)}
\* a listing of session ids has returned two sessions created at different times
C6_Witness ==
    \E c \in Callers :
        /\ Transactional /\ Returned(c, "get_all_session_ids")
        /\ Len(frame[c].list) = 2
        /\ CreatedAtOfId(frame[c].list[1]) > CreatedAtOfId(frame[c].list[2])

\* C7: document backend: both listings come back newest-created first,
\* whatever order the directory scan yields the files in (stated for the
\* sessions whose created_at is set).
C7_YamlListingOrder ==
    \A c \in Callers :
        (backend = "yaml" /\ pc[c] = "done" /\ ~frame[c].raised /\ IsListing(frame[c].op)) =>
            LET q == IF frame[c].op = "get_all_sessions"
                     THEN SessionIdsOf(frame[c].list) ELSE frame[c].list
            IN  \A i, j \in DOMAIN q :
                    (i < j /\ CreatedAtOfId(q[i]) # NoTime /\ CreatedAtOfId(q[j]) # NoTime)
                        => CreatedAtOfId(q[i]) >= CreatedAtOfId(q[j])

\* C8: every backend: a listing returns exactly the stored sessions, each
\* once, whose user_id equals the given user_id (when one is given) and whose
\* agent_id / workflow_id equals the given entity_id (when one is given).
C8_ListingFilters ==
    \A c \in Callers :
        (pc[c] = "done" /\ ~frame[c].raised /\ ~frame[c].faulted /\ IsListing(frame[c].op)) =>
            LET f == frame[c]
                q == IF f.op = "get_all_sessions" THEN SessionIdsOf(f.list) ELSE f.list
                wanted == {x \in StoredSessions :
                              /\ (f.user # None => x["user_id"] = f.user)
                              /\ (f.entity # None => x[IdCol(mode)] = f.entity)}
            IN  /\ {q[i] : i \in DOMAIN q} = {x["session_id"] : x \in wanted}
                /\ Len(q) = Cardinality(wanted)
                /\ f.op = "get_all_sessions" => {f.list[i] : i \in DOMAIN f.list} = wanted

\* C9 as stated: transactional backend: one upsert call executes its statement
\* at most twice and calls create() at most once, the second attempt runs with
\* create_and_retry = false, and the call ends: it takes at most ten steps and
\* is never stuck before it returns.
C9_RetryOnce ==
    \A c \in Callers :
        (Transactional /\ frame[c].op = "upsert") =>
            /\ frame[c].attempts <= 2
            /\ frame[c].creates <= 1
            /\ (frame[c].attempts = 2 \/ (frame[c].attempts = 1 /\ pc[c] = "upsert_exec"))
                   => ~frame[c].flag
            /\ frame[c].steps <= 10
            /\ pc[c] # "done" =>
                   ENABLED (CreateCheck(c) \/ CreateSchema(c) \/ CreateTable(c)
                            \/ UpsertRetry(c) \/ UpsertTableExists(c) \/ UpsertRead(c))
\* C9 (amended): transactional backend: one upsert call executes its statement
\* at most twice; its except clause calls create() at most once, and the
\* read-back that follows a successful statement calls create() at most once
\* more (when the table is gone by then); the second attempt runs with
\* create_and_retry = false, and the call ends: it takes at most ten steps and
\* is never stuck before it returns.
C9_RetryOnceThenReadBack ==
    \A c \in Callers :
        (Transactional /\ frame[c].op = "upsert") =>
            /\ frame[c].attempts <= 2
            /\ frame[c].creates <= 2
            /\ frame[c].t_write = NoTime => frame[c].creates <= 1
            /\ pc[c] \in {"upsert_exists", "upsert_exec", "upsert_read"} =>
                   frame[c].creates <= 1
            /\ (frame[c].attempts = 2 \/ (frame[c].attempts = 1 /\ pc[c] = "upsert_exec"))
                   => ~frame[c].flag
            /\ frame[c].steps <= 10
            /\ pc[c] # "done" =>
                   ENABLED (CreateCheck(c) \/ CreateSchema(c) \/ CreateTable(c)
                            \/ UpsertRetry(c) \/ UpsertTableExists(c) \/ UpsertRead(c))
\* an upsert called with create_and_retry = true has returned after it created
\* the table, retried, and created the table again in its read-back
C9_Witness ==
    \E c \in Callers :
        /\ Returned(c, "upsert") /\ Transactional /\ frame[c].car
        /\ frame[c].attempts = 2 /\ frame[c].creates = 2

\* C10: transactional backend whose container is missing, nothing else
\* failing: upsert(S) (create_and_retry = true) returns the record it stored,
\* the container exists afterwards and read(S.session_id) returns that record;
\* read(id) returns none without raising and leaves the container created.
C10_LazyCreation ==
    \A c \in Callers :
        (Transactional /\ pc[c] = "done" /\ frame[c].lazy /\ ~frame[c].faulted) =>
            LET f == frame[c]
            IN  /\ (f.op = "upsert" /\ f.car) =>
                    /\ ~f.raised
                    /\ f.ret # NoSession
                    /\ table_exists(FALSE)
                    /\ ReadNow(f.sid) = f.ret
                    /\ \A k \in DOMAIN f.session \ {"created_at", "updated_at"} :
                           f.ret[k] = f.session[k]
                /\ f.op = "read" =>
                    /\ ~f.raised
                    /\ f.ret = NoSession
                    /\ table_exists(FALSE)
\* an upsert on a postgres store without schema and table has created both
\* and returned the record
C10_Witness ==
    \E c \in Callers :
        /\ Returned(c, "upsert") /\ backend = "postgres"
        /\ frame[c].lazy /\ frame[c].car /\ ~frame[c].faulted
        /\ frame[c].steps = 7 /\ frame[c].ret # NoSession



\* C11: transactional backend: whatever step fails, no operation of the
\* contract ends with an exception; a read whose statement failed returns
\* none and a listing whose statement failed returns the empty sequence.
C11_TxFailSoft ==
    \A c \in Callers :
        (Transactional /\ pc[c] = "done") =>
            /\ ~frame[c].raised
            /\ (frame[c].faulted /\ frame[c].op = "read") => frame[c].ret = NoSession
            /\ (frame[c].faulted /\ IsListing(frame[c].op)) => frame[c].list = << >>

\* C12: document backend: whatever fails, no operation of the contract ends
\* with an exception; a failed read or upsert returns none and a failed
\* listing returns the empty sequence.
C12_YamlFailSoft ==
    \A c \in Callers :
        (backend = "yaml" /\ pc[c] = "done") =>
            /\ ~frame[c].raised
            /\ (frame[c].faulted /\ frame[c].op \in {"read", "upsert"}) =>
                   frame[c].ret = NoSession
            /\ (frame[c].faulted /\ IsListing(frame[c].op)) => frame[c].list = << >>

\* C13: transactional backend: when the statement of an upsert fails while the
\* table exists, the call returns none at once: create() is not called, there
\* is no second attempt, and the stored rows are unchanged.
C13_OtherFailureReturnsNone ==
    [][\A c \in Callers :
         LET first_failed ==
                 \/ /\ pc[c] = "idle" /\ frame'[c].op = "upsert"
                    /\ frame'[c].t_write = NoTime
                 \/ /\ pc[c] = "upsert_exists" /\ pc'[c] # "upsert_exists"
         IN  (Transactional /\ tableExists /\ first_failed) =>
                 /\ pc'[c] \in {"upsert_exists", "done"}
                 /\ frame'[c].creates = 0
                 /\ frame'[c].attempts = 1
                 /\ rows' = rows
                 /\ pc'[c] = "done" =>
                        frame'[c].ret = NoSession /\ ~frame'[c].raised]_vars

\* C14: transactional backend: an upsert that found the table missing, created
\* it and failed again in the retried attempt returns none without raising.
C14_RetryFailsSoftly ==
    \A c \in Callers :
        (/\ Transactional /\ frame[c].op = "upsert" /\ frame[c].lazy
         /\ frame[c].attempts = 2 /\ frame[c].t_write = NoTime) =>
            /\ pc[c] = "done"
            /\ frame[c].ret = NoSession
            /\ ~frame[c].raised
\* an upsert on a store without table has created it, failed in the retry and
\* returned none
C14_Witness ==
    \E c \in Callers :
        /\ Transactional /\ Returned(c, "upsert") /\ frame[c].lazy /\ frame[c].car
        /\ frame[c].creates = 1 /\ frame[c].attempts = 2
        /\ frame[c].t_write = NoTime /\ frame[c].ret = NoSession

\* the columns of a session that are neither key nor timestamp
NonKeyColumns(m) ==
    {"user_id", "memory", "session_data", "extra_data", IdCol(m), DataCol(m)}
\* both callers have completed a successful upsert of the same session_id
BothUpserted(sid) ==
    \A c \in Callers :
        /\ pc[c] = "done" /\ frame[c].op = "upsert"
        /\ frame[c].sid = sid /\ frame[c].t_write # NoTime

\* C15: transactional backend, two callers: once interleaved upserts of one
\* session_id have all completed, the table holds exactly one row of that
\* session_id, all its non-key columns come from one of the upserts, and its
\* created_at is the time at which the inserting upsert ran.
C15_AtomicUpsert ==
    \A sid \in SessionIds :
        BothUpserted(sid) =>
            LET R == {r \in rows : r["session_id"] = sid}
            IN  /\ Cardinality(R) = 1
                /\ \A r \in R :
                      /\ \E c \in Callers : \A k \in NonKeyColumns(mode) :
                             r[k] = frame[c].session[k]
                      /\ \A c \in Callers :
                             ~frame[c].existed => r["created_at"] = frame[c].t_write
\* two upserts of one session_id with different contents have completed, one
\* of them inserted the row, and the other ran at a later time
C15_Witness ==
    \E sid \in SessionIds :
        /\ BothUpserted(sid) /\ Cardinality(Callers) = 2
        /\ \E c, d \in Callers :
              /\ ~frame[c].existed /\ frame[d].existed
              /\ frame[c].t_write < frame[d].t_write
              /\ frame[c].session["user_id"] # frame[d].session["user_id"]

\* the columns get_table_v1 gives a handle of mode m
ColumnsOf(m) == DOMAIN get_table(m)
\* the connection arguments and the schema_version the constructor was given
GivenEngine == inst.given[1]
GivenUrl == inst.given[2]
GivenFile == inst.given[3]
GivenVersion == inst.given[4]
Constructed == inst.status # "absent"

\* C16: PostgresStorage / SqliteStorage constructed with no db_engine, no
\* db_url and (sqlite) no db_file raises the configuration error: no instance
\* results.
C16_NoConnectionSourceFails ==
    (/\ Transactional /\ Constructed
     /\ GivenEngine = None /\ GivenUrl = None /\ GivenFile = None) =>
        inst.status = "ValueError: Must provide a connection"

\* C17: a constructed SqliteStorage holds the given db_engine when one was
\* given, else the engine made from db_url, else the one made from db_file,
\* and an in-memory database only when none of the three was given.
C17_SqliteConnectionPriority ==
    (backend = "sqlite" /\ inst.status = "ok") =>
        inst.db_engine =
            IF GivenEngine # None THEN GivenEngine
            ELSE IF GivenUrl # None THEN "create_engine(db_url)"
            ELSE IF GivenFile # None THEN "create_engine(db_file)"
            ELSE "create_engine(sqlite://)"

\* C18: with a connection available, construction succeeds with
\* schema_version 1 and raises the unsupported-version error with any other
\* version; a mode assignment and a deep copy raise that error exactly when
\* the instance's schema_version is not 1.
C18_SchemaVersion ==
    [][/\ Construct =>
            LET sv == inst'.given[4]
                has_engine == init_engine(backend, inst'.given[1], inst'.given[2],
                                          inst'.given[3]) # None
            IN  has_engine =>
                  /\ sv = 1 => inst'.status = "ok"
                  /\ sv # 1 => inst'.status = "ValueError: Unsupported schema version"
       /\ SetMode =>
            (inst.schema_version # 1 <=>
                inst'.raised = "ValueError: Unsupported schema version")
       /\ DeepCopy =>
            (inst.schema_version # 1 <=>
                copied'.status = "ValueError: Unsupported schema version")]_vars
\* an instance whose schema_version was set to 2 has raised in its mode setter
\* and in its deep copy
C18_Witness ==
    /\ inst.status = "ok" /\ inst.schema_version = 2
    /\ inst.raised = "ValueError: Unsupported schema version"
    /\ copied.status = "ValueError: Unsupported schema version"

\* the record r is a session of mode m: it has that mode's fields only
SessionOfMode(r, m) == DOMAIN r = SessionFields(m)

\* C19: every record that read, get_all_sessions and upsert return is a
\* session of the store's mode (its id and data fields, none of the other
\* mode's), and the table handle has the mode's columns and none of the other
\* mode's.
C19_ModeIsolation ==
    /\ \A c \in Callers :
          pc[c] = "done" =>
            /\ (frame[c].op \in {"read", "upsert"} /\ frame[c].ret # NoSession) =>
                   SessionOfMode(frame[c].ret, mode)
            /\ frame[c].op = "get_all_sessions" =>
                   \A i \in DOMAIN frame[c].list : SessionOfMode(frame[c].list[i], mode)
    /\ (Transactional /\ inst.status = "ok") => inst.table = ColumnsOf(mode)

\* C20: transactional backend: when a mode has been assigned to an instance
\* (and the setter did not raise), the table handle has exactly the common
\* columns and the id and data columns of the new mode.
C20_ModeChangeRebuildsTable ==
    [][(SetMode /\ inst'.raised = None) => inst'.table = ColumnsOf(mode')]_vars

\* the session ids an unfiltered get_all_session_ids can return now
ListedIds ==
    IF Transactional
    THEN UNION {{q[i] : i \in DOMAIN q} :
                   q \in get_all_session_ids_results(mode, rows, None, None)}
    ELSE UNION {{q[i] : i \in DOMAIN q} :
                   q \in {yaml_get_all_session_ids(mode, files, scan, None, None) :
                              scan \in Orders(DOMAIN files)}}
\* the records an unfiltered get_all_sessions can return now
ListedSessions ==
    IF Transactional
    THEN UNION {{q[i] : i \in DOMAIN q} :
                   q \in get_all_sessions_results(mode, rows, None, None)}
    ELSE UNION {{q[i] : i \in DOMAIN q} :
                   q \in {yaml_get_all_sessions(mode, files, scan, None, None) :
                              scan \in Orders(DOMAIN files)}}
\* caller c makes a whole call of op in this step and it does not fail
CallsNow(c, op) ==
    /\ pc[c] = "idle" /\ pc'[c] = "done"
    /\ frame'[c].op = op /\ ~frame'[c].faulted

C22_Drop ==
    /\ [](\A c \in Callers :
            /\ (Returned(c, "drop") /\ ~frame[c].faulted) =>
                  /\ \A sid \in SessionIds : ReadNow(sid) = NoSession
                  /\ ListedIds = {}
                  /\ ListedSessions = {}
            /\ (/\ Transactional /\ pc[c] = "done" /\ frame[c].op = "upsert"
                /\ frame[c].car /\ frame[c].lazy /\ ~frame[c].faulted) =>
                  /\ ~frame[c].raised
                  /\ frame[c].ret # NoSession
                  /\ StoredSessions = {frame[c].ret})
    /\ [][\A c \in Callers :
            (backend = "yaml" /\ CallsNow(c, "upsert") /\ DOMAIN files = {}) =>
               /\ frame'[c].ret # NoSession
               /\ DOMAIN files' = {frame'[c].sid}]_vars
\* a drop of a store that held sessions has returned
C22_Witness ==
    \E c \in Callers :
        Returned(c, "drop") /\ ~frame[c].faulted /\ frame[c].existed

\* C23: create() when the container exists, nothing failing: the call goes
\* no further than the existence check (no creation is attempted), raises
\* nothing and leaves the store as it was; so a second create() in a row
\* changes nothing.
C23_CreateIdempotent ==
    /\ [](\A c \in Callers :
            (frame[c].op = "create" /\ ~frame[c].lazy /\ ~frame[c].faulted) =>
               /\ pc[c] \in {"create_check", "done"}
               /\ ~frame[c].raised)
    /\ [][\A c \in Callers :
            (/\ frame'[c].op = "create" /\ ~frame'[c].lazy
             /\ ~frame'[c].faulted) => storeVars' = storeVars]_vars
\* create() has returned on a postgres store whose table existed and held a row
C23_Witness ==
    \E c \in Callers :
        /\ Returned(c, "create") /\ backend = "postgres"
        /\ ~frame[c].lazy /\ ~frame[c].faulted
        /\ rows # {}

\* the configuration attributes that __deepcopy__ copies by value
ConfigFields == {"table_name", "schema", "schema_version",
                 "auto_upgrade_schema", "mode", "given"}

\* C24: a deep copy of a PostgresStorage / SqliteStorage that succeeds holds
\* the original's db_engine and Session objects themselves, has every other
\* configuration field equal to the original's, and has metadata, inspector
\* and table objects of its own, the table having exactly the columns of the
\* copy's mode.
C24_ClonePolicy ==
    [][(DeepCopy /\ copied'.status = "ok") =>
          /\ copied'.db_engine = inst.db_engine
          /\ copied'.objects["Session"] = inst.objects["Session"]
          /\ \A k \in ConfigFields : copied'[k] = inst[k]
          /\ \A k \in {"metadata", "inspector", "table"} :
                \A j \in DOMAIN inst.objects :
                   copied'.objects[k] # inst.objects[j]
          /\ copied'.table = ColumnsOf(copied'.mode)
          /\ copied'.metadata = copied'.table
          /\ inst' = inst]_vars
\* a copy exists of an original whose own table handle still carries the
\* columns of an earlier mode
C24_Witness ==
    /\ copied.status = "ok" /\ inst.status = "ok"
    /\ copied.mode = inst.mode /\ copied.schema_version = inst.schema_version
    /\ inst.table # ColumnsOf(inst.mode)
    /\ copied.table = ColumnsOf(copied.mode)
    /\ copied.table_name = "runs" /\ copied.auto_upgrade_schema

\* the mapping the document of session sid holds
DocumentOf(sid) == deserialize(files[sid])

\* C25: document backend: when an upsert that received a session whose
\* created_at is unset has returned, the persisted document's created_at
\* equals its updated_at, both being the time of that write.
C25_FirstWriteCreatedAt ==
    \A c \in Callers :
        (/\ backend = "yaml" /\ Returned(c, "upsert") /\ ~frame[c].faulted
         /\ frame[c].session["created_at"] = NoTime) =>
            /\ DocumentOf(frame[c].sid)["updated_at"] = frame[c].t_write
            /\ DocumentOf(frame[c].sid)["created_at"] =
                  DocumentOf(frame[c].sid)["updated_at"]

\* C26: document backend: across every upsert of a session_id whose document
\* exists already, the created_at of the persisted document stays what it
\* was, whatever created_at the incoming session carries.
C26_YamlCreatedAtWriteOnce ==
    [][backend = "yaml" =>
        \A sid \in SessionIds :
            (sid \in DOMAIN files /\ sid \in DOMAIN files')
                => DocumentOf(sid)'["created_at"] = DocumentOf(sid)["created_at"]]_vars

\* C27: the same call made with the same arguments at the same clock on a
\* transactional store and on a document store of the same mode that have
\* seen the same call sequence returns the same value from both: the same
\* record (created_at and updated_at included) or none, and the same listing
\* in the same order.
C27_CrossBackendAgreement ==
    (pc[1] = "done" /\ pc[2] = "done" /\ frame[1].op = frame[2].op) =>
        /\ frame[1].ret = frame[2].ret
        /\ frame[1].list = frame[2].list

\* the characters of the document that caller c's upsert writes
WrittenBy(c) ==
    Chars(serialize(yaml_upsert_data(frame[c].session, frame[c].t_write)))

\* C28: document backend: once two upserts of the same session_id have both
\* completed, the file holds the complete document of one of the two, never
\* a mixture of both and never a truncated document.
C28_RacingWriters ==
    (/\ backend = "yaml"
     /\ \A c \in {1, 2} : Returned(c, "upsert")
     /\ frame[1].sid = frame[2].sid) =>
        \E c \in {1, 2} : files[frame[c].sid] = WrittenBy(c)

\* what the store holds under session_id sid: the rows, or the file's text
RecordOf(sid) ==
    IF Transactional THEN {r \in rows : r["session_id"] = sid}
    ELSE IF sid \in DOMAIN files THEN {files[sid]} ELSE {}
StoredIds == {sid \in SessionIds : RecordOf(sid) # {}}

\* C29: in every step, on every backend, a session_id whose record appears
\* or changes is the session_id of the session passed to an upsert call in
\* progress in that step; no other step (read, listing, create, lazy
\* creation of the container, delete_session, drop, upgrade_schema) adds or
\* alters a record.
C29_NoSpontaneousSessions ==
    [][\A sid \in SessionIds :
         (RecordOf(sid)' # RecordOf(sid) /\ RecordOf(sid)' # {}) =>
            \E c \in Callers :
               /\ frame'[c].op = "upsert"
               /\ frame'[c].sid = sid
               /\ frame'[c].session["session_id"] = sid
               /\ frame'[c].t_write # NoTime]_vars
\* a read of a session_id that is not stored has created the missing table
\* and returned none, and the store holds nothing
C29_Witness ==
    \E c \in Callers :
        /\ Returned(c, "read") /\ Transactional
        /\ frame[c].lazy /\ frame[c].creates = 1 /\ tableExists
        /\ frame[c].ret = NoSession
        /\ StoredIds = {}

ListedBy(c) ==
    IF frame[c].op = "get_all_sessions" THEN SessionIdsOf(frame[c].list)
    ELSE frame[c].list
NoRepeat(q) == \A i, j \in DOMAIN q : i # j => q[i] # q[j]

C32_NoRetryNoCreate ==
    \A c \in Callers :
        (/\ Transactional /\ pc[c] = "done" /\ frame[c].op = "upsert"
         /\ ~frame[c].car /\ frame[c].lazy) =>
            /\ ~frame[c].raised
            /\ frame[c].ret = NoSession
            /\ frame[c].attempts = 1
            /\ frame[c].creates = 0
            /\ ~tableExists
            /\ rows = {}
\* such an upsert has returned on a postgres store whose schema exists while
\* its table does not
C32_Witness ==
    \E c \in Callers :
        /\ backend = "postgres" /\ Returned(c, "upsert")
        /\ ~frame[c].car /\ frame[c].lazy /\ frame[c].attempts = 1
        /\ schemaExists /\ ~tableExists

\* C33: transactional backend, two callers upserting on a never-initialized
\* store with no failure injected into either call: a call that has
\* completed did not raise and did not return none, and once both have
\* completed both sessions are stored.
C33_ConcurrentLazyCreation ==
    (\A d \in {1, 2} : ~frame[d].faulted) =>
        /\ \A c \in {1, 2} :
              (pc[c] = "done" /\ frame[c].op = "upsert") =>
                  ~frame[c].raised /\ frame[c].ret # NoSession
        /\ (\A c \in {1, 2} : pc[c] = "done" /\ frame[c].op = "upsert") =>
              \A c \in {1, 2} : ReadNow(frame[c].sid) # NoSession

\* C34: transactional backend, concurrent callers: an upsert(S) that has
\* returned a record returned one whose user_id, memory, session_data,
\* extra_data and mode fields (entity id and entity data) equal those of S.
C34_ReturnsOwnWrite ==
    \A c \in Callers :
        (/\ Transactional /\ Returned(c, "upsert")
         /\ frame[c].ret # NoSession) =>
            \A k \in {"user_id", "memory", "session_data", "extra_data",
                      IdCol(mode), DataCol(mode)} :
                frame[c].ret[k] = frame[c].session[k]

\* C35: document backend: a read or listing made while an upsert has opened
\* its document and not yet written it completes without raising, and no
\* element of a returned sequence is none.
C35_ScanDuringWrite ==
    \A c \in Callers :
        (/\ backend = "yaml" /\ pc[c] = "done"
         /\ frame[c].op \in {"read", "get_all_session_ids", "get_all_sessions"}
         /\ ~frame[c].faulted
         /\ \E d \in Callers : pc[d] = "yaml_write") =>
            /\ ~frame[c].raised
            /\ \A i \in DOMAIN frame[c].list : frame[c].list[i] # NoSession

\* C36: a call holds at most one unit of work (database session, or file
\* handle) at a time, holds one only between the entry and the exit of a with
\* block, and holds none when it has returned or raised: after read, the
\* listings, upsert, delete_session and create, on success, on failure and on
\* the create-and-retry path.
C36_UnitsReleased ==
    \A c \in Callers :
        /\ frame[c].open \in {0, 1}
        /\ frame[c].open = 1 <=> pc[c] \in {"with_body", "with_exit"}
        /\ pc[c] \in {"idle", "done"} => frame[c].open = 0
\* an upsert whose first statement failed has created the table, retried
\* and read the row back, and has returned
C36_Witness ==
    \E c \in Callers :
        /\ pc[c] = "done" /\ frame[c].op = "upsert" /\ Transactional
        /\ frame[c].unit = "readback" /\ frame[c].attempts = 2
        /\ frame[c].creates = 1 /\ frame[c].faulted
        /\ frame[c].open = 0

\* C37: PostgresStorage with a schema: create() reaches the table creation
\* only once the schema exists, and a step that creates the table starts in
\* a state where the schema exists; with schema None create() never issues
\* the schema creation and goes from the existence check to the table.
C37_SchemaBeforeTable ==
    /\ [](\A c \in Callers :
            /\ (inst.schema # None /\ pc[c] = "create_table") => schemaExists
            /\ (inst.schema # None /\ tableExists) => schemaExists
            /\ inst.schema = None => (pc[c] # "create_schema" /\ ~schemaExists))
    /\ [][(~tableExists /\ tableExists' /\ inst.schema # None) =>
             schemaExists]_vars
\* create() on a store with a schema has found schema and table missing, has
\* created both and has returned
C37_Witness ==
    \E c \in Callers :
        /\ Returned(c, "create") /\ frame[c].lazy /\ ~frame[c].faulted
        /\ inst.schema # None /\ frame[c].steps = 3
        /\ schemaExists /\ tableExists

ReadOps == {"read", "get_all_session_ids", "get_all_sessions"}

\* C38: every step of a read, get_all_session_ids or get_all_sessions call,
\* on every backend, succeeding or failing, leaves the rows and the files as
\* they are and removes neither the table nor the schema; all it may do to
\* the store is create a missing container.
C38_ReadsAreReadOnly ==
    [][\A c \in Callers :
         frame'[c].op \in ReadOps =>
            /\ rows' = rows
            /\ files' = files
            /\ tableExists => tableExists'
            /\ schemaExists => schemaExists']_vars
\* a listing whose statement failed on a table that holds rows has called
\* create() and returned
C38_Witness ==
    \E c \in Callers :
        /\ Returned(c, "get_all_sessions") /\ backend = "postgres"
        /\ frame[c].faulted /\ frame[c].creates = 1 /\ ~frame[c].lazy
        /\ rows # {}

\* C39: after a deep copy of a PostgresStorage / SqliteStorage, assigning the
\* copy's mode leaves the original's mode and the columns of the original's
\* table handle (and metadata) as they were, and assigning the original's
\* mode leaves the copy's.
C39_CloneIndependence ==
    [][/\ SetCopiedMode =>
            /\ inst'.mode = inst.mode
            /\ inst'.table = inst.table
            /\ inst'.metadata = inst.metadata
       /\ (SetMode /\ copied.status = "ok") =>
            /\ copied'.mode = copied.mode
            /\ copied'.table = copied.table
            /\ copied'.metadata = copied.metadata]_vars
\* the copy's mode has been changed after the copy was made: the two modes
\* differ, the copy's handle carries the columns of both modes, the
\* original's only those of its own
C39_Witness ==
    /\ inst.status = "ok" /\ copied.status = "ok"
    /\ copied.mode # inst.mode
    /\ inst.table = ColumnsOf(inst.mode)
    /\ copied.table = ColumnsOf("agent") \cup ColumnsOf("workflow")

\* a session record with a session_id
IsRecord(s) == s # NoSession /\ "session_id" \in DOMAIN s /\ s["session_id"] # None

\* C40: every element of a sequence that get_all_sessions has returned is a
\* session record with a non-null session_id, never none, and what read has
\* returned is none or such a record.
C40_NoNoneEntry ==
    \A c \in Callers :
        /\ Returned(c, "get_all_sessions") =>
              \A i \in DOMAIN frame[c].list : IsRecord(frame[c].list[i])
        /\ Returned(c, "read") =>
              (frame[c].ret = NoSession \/ IsRecord(frame[c].ret))

=============================================================================
